---- MODULE Spec2Model ----
(***************************************************************************)
(* The discount wheel of IntelcobroWebIA: SpinWheelUseCase.execute and its *)
(* private steps, the spin limits of WheelSpinDTOValidator, the WheelResult *)
(* entity and the client hook useWheel.                                     *)
(*                                                                          *)
(* Time is in milliseconds since the epoch, as Date.getTime() gives it.     *)
(* The runs are placed in January 1970 so that every instant fits a         *)
(* 32-bit integer.  A calendar date 'YYYY-MM-DD' is the number of the UTC   *)
(* day, which is what Date.toISOString().split('T')[0] identifies.          *)
(***************************************************************************)
EXTENDS Integers, Sequences, FiniteSets, TLC

\* ------------------------------------------------------------------------
\* Bounds of the model
\* ------------------------------------------------------------------------
MaxHist == 2        \* longest history handed to the limiter
MaxCap == 2         \* largest per-session / per-day cap drawn for the limiter
MaxCalls == 4       \* execute() calls started in one behaviour of Spec
MaxTicks == 3       \* clock advances between calls in one behaviour of Spec
MaxRedeems == 2     \* redeemWheelDiscount calls in one behaviour of SpecRedeem
MaxEntityCalls == 3 \* method calls on the WheelResult of SpecEntity
MaxBelowOne == 24   \* the draws next to 1 taken: 1 - j / 2^53 for j up to this

\* ------------------------------------------------------------------------
\* Program constants
\* ------------------------------------------------------------------------
SECOND_MS == 1000
MAX_SESSION_ID_LENGTH == 100
DEFAULT_MAX_SPINS_PER_SESSION == 3
DEFAULT_MAX_SPINS_PER_DAY == 10
DEFAULT_MAX_SPINS_PER_IP == 15
HTTP_BAD_REQUEST == 400
HTTP_TOO_MANY_REQUESTS == 429
REDEEM_VALID_DAYS == 30
MIN_DISCOUNT == 0
MAX_DISCOUNT == 100

MINUTE_MS == 60 * SECOND_MS
HOUR_MS == 60 * MINUTE_MS
DAY_MS == 24 * HOUR_MS
DEFAULT_COOLDOWN_MS == 5 * 60 * 1000

\* ------------------------------------------------------------------------
\* Values
\* ------------------------------------------------------------------------
\* An absent Date (undefined); every instant of the model is >= 0.
NoDate == 0 - 1

\* A string that may be undefined: the characters, or undefined.
Undefined == [def |-> FALSE, s |-> <<>>]
Str(chars) == [def |-> TRUE, s |-> chars]

Min(a, b) == IF a <= b THEN a ELSE b
Max(a, b) == IF a >= b THEN a ELSE b

\* Math.ceil(a / b) for a >= 0, b > 0
CeilDiv(a, b) == (a + b - 1) \div b

\* Date.toISOString().split('T')[0]: the UTC calendar date of an instant
IsoDate(t) == t \div DAY_MS

\* d.setDate(d.getDate() + 1); d.setHours(0, 0, 0, 0): the next midnight of
\* the process's LOCAL time zone (tz = local time - UTC, in ms), as an instant
NextLocalMidnight(t, tz) == (((t + tz) \div DAY_MS) + 1) * DAY_MS - tz

\* The next midnight of UTC after instant t
NextUtcMidnight(t) == (IsoDate(t) + 1) * DAY_MS

\* ------------------------------------------------------------------------
\* ValidationException (the factory methods the wheel uses)
\* ------------------------------------------------------------------------
\* timeWindow of a rate-limit error: `${n} minutos`, 'día' or 'sesión'
Window(n, unit) == [n |-> n, unit |-> unit]
NoWindow == Window(0, "")

MkError(type, field, code, statusCode, limit, window) ==
  [type |-> type, field |-> field, code |-> code, statusCode |-> statusCode,
   limit |-> limit, window |-> window]

requiredField(field) ==
  MkError("REQUIRED_FIELD", field, "REQUIRED", HTTP_BAD_REQUEST, 0, NoWindow)

invalidFormat(field) ==
  MkError("INVALID_FORMAT", field, "INVALID_FORMAT", HTTP_BAD_REQUEST, 0, NoWindow)

invalidLength(field, max) ==
  MkError("INVALID_LENGTH", field, "INVALID_LENGTH", HTTP_BAD_REQUEST, max, NoWindow)

businessRuleViolation(field) ==
  MkError("BUSINESS_RULE_VIOLATION", field, "BUSINESS_RULE", HTTP_BAD_REQUEST, 0, NoWindow)

rateLimitExceeded(field, limit, window) ==
  MkError("RATE_LIMIT_EXCEEDED", field, "RATE_LIMIT", HTTP_TOO_MANY_REQUESTS, limit, window)

\* throw new Error(...) of a constructor: not a ValidationException
plainError(field) ==
  MkError("Error", field, "", 0, 0, NoWindow)

\* ------------------------------------------------------------------------
\* SpinWheelUseCase: limits and the eligibility checks
\* ------------------------------------------------------------------------
SpinLimits(perSession, perDay, cooldown) ==
  [maxSpinsPerSession |-> perSession, maxSpinsPerDay |-> perDay,
   maxSpinsPerIp |-> DEFAULT_MAX_SPINS_PER_IP, cooldownBetweenSpins |-> cooldown]

\* the limits when the environment sets none of the variables
defaultLimits ==
  SpinLimits(DEFAULT_MAX_SPINS_PER_SESSION, DEFAULT_MAX_SPINS_PER_DAY, DEFAULT_COOLDOWN_MS)

UserSpinHistory(sessionId, spinsToday, spinsInSession, lastSpinAt) ==
  [sessionId |-> sessionId, spinsToday |-> spinsToday,
   spinsInSession |-> spinsInSession, lastSpinAt |-> lastSpinAt,
   totalSpins |-> Len(spinsToday)]

\* spinsToday.filter(spin => spin.timestamp.toISOString().startsWith(today)).length
SpinsDatedOn(spins, now) ==
  Cardinality({i \in DOMAIN spins : IsoDate(spins[i].timestamp) = IsoDate(now)})

\* checkCanSpin with the session cap compared by > instead of >=
checkCanSpin_SessionCapOffByOne(history, limits, now) ==
  IF history.lastSpinAt # NoDate
     /\ now - history.lastSpinAt < limits.cooldownBetweenSpins
  THEN FALSE
  ELSE IF Len(history.spinsInSession) > limits.maxSpinsPerSession
  THEN FALSE
  ELSE IF SpinsDatedOn(history.spinsToday, now) >= limits.maxSpinsPerDay
  THEN FALSE
  ELSE TRUE

\* checkCanSpin, with now the instant its new Date() reads
checkCanSpin(history, limits, now) ==
  IF history.lastSpinAt # NoDate
     /\ now - history.lastSpinAt < limits.cooldownBetweenSpins
  THEN FALSE
  ELSE IF Len(history.spinsInSession) >= limits.maxSpinsPerSession
  THEN FALSE
  ELSE IF SpinsDatedOn(history.spinsToday, now) >= limits.maxSpinsPerDay
  THEN FALSE
  ELSE TRUE

\* calculateCooldownRemaining measuring the cooldown in seconds
calculateCooldownRemaining_InSeconds(history, limits, now) ==
  IF history.lastSpinAt = NoDate THEN 0
  ELSE Max(0, limits.cooldownBetweenSpins \div SECOND_MS - (now - history.lastSpinAt))

\* calculateCooldownRemaining, with now the instant its Date.now() reads
calculateCooldownRemaining(history, limits, now) ==
  IF history.lastSpinAt = NoDate THEN 0
  ELSE Max(0, limits.cooldownBetweenSpins - (now - history.lastSpinAt))

\* validateCanSpin with the session cap tested before the daily cap
validateCanSpin_SessionFirst(context, now) ==
  IF context.canSpin THEN <<>>
  ELSE IF context.cooldownRemaining > 0
  THEN <<rateLimitExceeded("spin", 1,
           Window(CeilDiv(context.cooldownRemaining, MINUTE_MS), "minutos"))>>
  ELSE IF Len(context.userHistory.spinsInSession) >= context.limits.maxSpinsPerSession
  THEN <<rateLimitExceeded("spin", context.limits.maxSpinsPerSession, Window(0, "sesion"))>>
  ELSE IF SpinsDatedOn(context.userHistory.spinsToday, now) >= context.limits.maxSpinsPerDay
  THEN <<rateLimitExceeded("spin", context.limits.maxSpinsPerDay, Window(0, "dia"))>>
  ELSE <<businessRuleViolation("spin")>>

\* validateCanSpin: the exception it throws, as a sequence of at most one
\* error, with now the instant its new Date() reads
validateCanSpin(context, now) ==
  IF context.canSpin THEN <<>>
  ELSE IF context.cooldownRemaining > 0
  THEN <<rateLimitExceeded("spin", 1,
           Window(CeilDiv(context.cooldownRemaining, MINUTE_MS), "minutos"))>>
  ELSE IF SpinsDatedOn(context.userHistory.spinsToday, now) >= context.limits.maxSpinsPerDay
  THEN <<rateLimitExceeded("spin", context.limits.maxSpinsPerDay, Window(0, "dia"))>>
  ELSE IF Len(context.userHistory.spinsInSession) >= context.limits.maxSpinsPerSession
  THEN <<rateLimitExceeded("spin", context.limits.maxSpinsPerSession, Window(0, "sesion"))>>
  ELSE <<businessRuleViolation("spin")>>

\* calculateNextSpinInfo, with now the instant its new Date() reads and tz
\* the offset of the process's local time zone
\* calculateNextSpinInfo counting the spins before this one only
calculateNextSpinInfo_BeforeSpin(context, now, tz) ==
  LET nextSpinByCooldown == now + context.limits.cooldownBetweenSpins
      spinsInSessionAfter == Len(context.userHistory.spinsInSession)
      spinsToday == Len(context.userHistory.spinsToday)
      reachedSessionLimit == spinsInSessionAfter >= context.limits.maxSpinsPerSession
      reachedDailyLimit == spinsToday >= context.limits.maxSpinsPerDay
      canSpinAgain == ~reachedSessionLimit /\ ~reachedDailyLimit
  IN [canSpinAgain |-> canSpinAgain,
      nextSpinAllowedAt |->
        IF canSpinAgain THEN nextSpinByCooldown
        ELSE IF reachedDailyLimit THEN NextLocalMidnight(now, tz)
        ELSE NoDate,
      spinsRemainingToday |-> Max(0, context.limits.maxSpinsPerDay - spinsToday)]

\* calculateNextSpinInfo, with now the instant its new Date() reads
calculateNextSpinInfo(context, now, tz) ==
  LET nextSpinByCooldown == now + context.limits.cooldownBetweenSpins
      spinsInSessionAfter == Len(context.userHistory.spinsInSession) + 1
      spinsToday == Len(context.userHistory.spinsToday) + 1
      reachedSessionLimit == spinsInSessionAfter >= context.limits.maxSpinsPerSession
      reachedDailyLimit == spinsToday >= context.limits.maxSpinsPerDay
      canSpinAgain == ~reachedSessionLimit /\ ~reachedDailyLimit
  IN [canSpinAgain |-> canSpinAgain,
      nextSpinAllowedAt |->
        IF canSpinAgain THEN nextSpinByCooldown
        ELSE IF reachedDailyLimit THEN NextLocalMidnight(now, tz)
        ELSE NoDate,
      spinsRemainingToday |-> Max(0, context.limits.maxSpinsPerDay - spinsToday)]

\* ------------------------------------------------------------------------
\* WheelSpinDTOValidator.validateSpinLimits
\* ------------------------------------------------------------------------
\* A field the result does not carry
Absent == 0 - 1

SpinValidation(canSpin, errors, cooldownRemaining, spinsRemaining, nextAllowedSpin) ==
  [canSpin |-> canSpin, errors |-> errors, cooldownRemaining |-> cooldownRemaining,
   spinsRemaining |-> spinsRemaining, nextAllowedSpin |-> nextAllowedSpin]

\* userSpinHistory is the list of summaries, index 1 the one the code reads as
\* userSpinHistory[0]; now, now2 and now3 are the instants read by its three
\* new Date() calls, in program order.  The ISO string of nextAllowedSpin is
\* carried as the instant it denotes.
\* validateSpinLimits counting the spins left against the daily cap alone
validateSpinLimits_DailyCapOnly(userSpinHistory, limits, now, now2, now3, tz) ==
  LET timeSinceLastSpin == now - userSpinHistory[1].timestamp
      remainingCooldown == limits.cooldownBetweenSpins - timeSinceLastSpin
      spinsToday == SpinsDatedOn(userSpinHistory, now2)
      spinsInSession == Len(userSpinHistory)
  IN IF Len(userSpinHistory) > 0 /\ timeSinceLastSpin < limits.cooldownBetweenSpins
     THEN SpinValidation(FALSE, <<"Debe esperar antes de girar nuevamente">>, remainingCooldown, Absent,
                         now + remainingCooldown)
     ELSE IF spinsToday >= limits.maxSpinsPerDay
     THEN SpinValidation(FALSE, <<"Ha alcanzado el limite diario de giros">>, Absent, 0, NextLocalMidnight(now3, tz))
     ELSE IF spinsInSession >= limits.maxSpinsPerSession
     THEN SpinValidation(FALSE, <<"Ha alcanzado el limite de giros por sesion">>, Absent, 0, NoDate)
     ELSE SpinValidation(TRUE, <<>>, Absent, limits.maxSpinsPerDay - spinsToday, NoDate)

\* validateSpinLimits, with now, now2 and now3 the instants its three
\* new Date() read
validateSpinLimits(userSpinHistory, limits, now, now2, now3, tz) ==
  LET timeSinceLastSpin == now - userSpinHistory[1].timestamp
      remainingCooldown == limits.cooldownBetweenSpins - timeSinceLastSpin
      spinsToday == SpinsDatedOn(userSpinHistory, now2)
      spinsInSession == Len(userSpinHistory)
  IN IF Len(userSpinHistory) > 0 /\ timeSinceLastSpin < limits.cooldownBetweenSpins
     THEN SpinValidation(FALSE, <<"Debe esperar antes de girar nuevamente">>, remainingCooldown, Absent,
                         now + remainingCooldown)
     ELSE IF spinsToday >= limits.maxSpinsPerDay
     THEN SpinValidation(FALSE, <<"Ha alcanzado el limite diario de giros">>, Absent, 0, NextLocalMidnight(now3, tz))
     ELSE IF spinsInSession >= limits.maxSpinsPerSession
     THEN SpinValidation(FALSE, <<"Ha alcanzado el limite de giros por sesion">>, Absent, 0, NoDate)
     ELSE SpinValidation(TRUE, <<>>, Absent,
                         Min(limits.maxSpinsPerDay - spinsToday,
                             limits.maxSpinsPerSession - spinsInSession),
                         NoDate)

\* ------------------------------------------------------------------------
\* WheelSection and WHEEL_SECTIONS_CONFIG
\* ------------------------------------------------------------------------
SectionConfig(section, label, discountPercentage, probability) ==
  [section |-> section, label |-> label,
   discountPercentage |-> discountPercentage, probability |-> probability]

\* a table whose probabilities add up to 102
WHEEL_SECTIONS_CONFIG_UnevenOdds ==
  << SectionConfig("DISCOUNT_5", "5% OFF", 5, 25),
     SectionConfig("DISCOUNT_10", "10% OFF", 10, 20),
     SectionConfig("DISCOUNT_15", "15% OFF", 15, 15),
     SectionConfig("DISCOUNT_20", "20% OFF", 20, 15),
     SectionConfig("DISCOUNT_25", "25% OFF", 25, 10),
     SectionConfig("DISCOUNT_30", "30% OFF", 30, 10),
     SectionConfig("DISCOUNT_50", "50% OFF", 50, 2),
     SectionConfig("TRY_AGAIN", "Try Again", 0, 5) >>

WHEEL_SECTIONS_CONFIG ==
  << SectionConfig("DISCOUNT_5", "5% OFF", 5, 25),
     SectionConfig("DISCOUNT_10", "10% OFF", 10, 20),
     SectionConfig("DISCOUNT_15", "15% OFF", 15, 15),
     SectionConfig("DISCOUNT_20", "20% OFF", 20, 15),
     SectionConfig("DISCOUNT_25", "25% OFF", 25, 10),
     SectionConfig("DISCOUNT_30", "30% OFF", 30, 8),
     SectionConfig("DISCOUNT_50", "50% OFF", 50, 2),
     SectionConfig("TRY_AGAIN", "Try Again", 0, 5) >>

WheelSection == {WHEEL_SECTIONS_CONFIG[i].section : i \in DOMAIN WHEEL_SECTIONS_CONFIG}

\* WHEEL_SECTIONS_CONFIG.indexOf(find(config => config.section === section)),
\* counted from 1; 0 when there is none
SectionIndex(section) ==
  IF \E i \in DOMAIN WHEEL_SECTIONS_CONFIG : WHEEL_SECTIONS_CONFIG[i].section = section
  THEN CHOOSE i \in DOMAIN WHEEL_SECTIONS_CONFIG :
         /\ WHEEL_SECTIONS_CONFIG[i].section = section
         /\ \A j \in 1..(i - 1) : WHEEL_SECTIONS_CONFIG[j].section # section
  ELSE 0

\* getSectionConfig(section)?.discountPercentage || 0
SectionDiscount(section) ==
  IF SectionIndex(section) = 0 THEN 0
  ELSE WHEEL_SECTIONS_CONFIG[SectionIndex(section)].discountPercentage

\* ------------------------------------------------------------------------
\* RandomGenerator.  A value of Math.random() is u / RandomScale with u in
\* 0 .. RandomScale - 1; angles are in units of 1 / RandomScale degree.
\* ------------------------------------------------------------------------
RandomScale == 10 * 100
Degrees(n) == n * RandomScale

\* Math.floor(random() * (max - min + 1)) + min
randomInt(min, max, u) == ((u * (max - min + 1)) \div RandomScale) + min

\* random() * (max - min) + min, in units of 1 / RandomScale
randomFloat(min, max, u) == u * (max - min) + min * RandomScale

RECURSIVE SumTo(_, _)
SumTo(weights, n) == IF n = 0 THEN 0 ELSE SumTo(weights, n - 1) + weights[n]

\* weightedRandom that compares the draw by < instead of <=
weightedRandom_Exclusive(items, weights, u) ==
  LET totalWeight == SumTo(weights, Len(weights))
      hit(i) == u * totalWeight < SumTo(weights, i) * RandomScale
  IN IF \E i \in DOMAIN items : hit(i)
     THEN items[CHOOSE i \in DOMAIN items : hit(i) /\ \A j \in 1..(i - 1) : ~hit(j)]
     ELSE items[Len(items)]

\* weightedRandom(items, weights) for the draw u: the first item whose
\* cumulative normalised weight is >= random, or else the last item
weightedRandom(items, weights, u) ==
  LET totalWeight == SumTo(weights, Len(weights))
      hit(i) == u * totalWeight <= SumTo(weights, i) * RandomScale
  IN IF \E i \in DOMAIN items : hit(i)
     THEN items[CHOOSE i \in DOMAIN items : hit(i) /\ \A j \in 1..(i - 1) : ~hit(j)]
     ELSE items[Len(items)]

generateWheelSection(u) ==
  weightedRandom([i \in DOMAIN WHEEL_SECTIONS_CONFIG |-> WHEEL_SECTIONS_CONFIG[i].section],
                 [i \in DOMAIN WHEEL_SECTIONS_CONFIG |-> WHEEL_SECTIONS_CONFIG[i].probability],
                 u)

\* generateWheelAngle(targetSection): uOffset and uRotations are the draws of
\* randomFloat and randomInt
generateWheelAngle(targetSection, uOffset, uRotations) ==
  LET totalSections == Len(WHEEL_SECTIONS_CONFIG)
      degreesPerSection == 360 \div totalSections
      baseSectionAngle == (SectionIndex(targetSection) - 1) * degreesPerSection
  IN Degrees(baseSectionAngle) + randomFloat(0, degreesPerSection, uOffset)
       + Degrees(randomInt(3, 6, uRotations) * 360)

generateSpinDuration(u) == randomInt(3000, 5000, u)

\* Double-precision arithmetic next to a slice boundary.  A sum of the
\* angle that lies just below the whole number of degrees s is kept as s
\* and how far below it lies, counted in units of 2^-47 degree (the spacing
\* of the doubles in [32, 64), where randomOffset lies).
RECURSIVE Log2(_)
Log2(n) == IF n < 2 THEN 0 ELSE 1 + Log2(n \div 2)

RECURSIVE Pow2(_)
Pow2(e) == IF e = 0 THEN 1 ELSE 2 * Pow2(e - 1)

\* x rounded to the nearest multiple of m, ties to the even multiple
RoundToNearestEven(x, m) ==
  LET q == x \div m
      r == x % m
  IN IF 2 * r < m THEN q * m
     ELSE IF 2 * r > m THEN (q + 1) * m
     ELSE IF q % 2 = 0 THEN q * m ELSE (q + 1) * m

\* the spacing of the doubles just below s degrees, in units of 2^-47
UlpBelow(s) == Pow2(Log2(s) - 5)

\* how far below s the double nearest to (s minus below) lies
RoundBelow(s, below) == RoundToNearestEven(below, UlpBelow(s))

\* generateWheelAngle(targetSection) when Math.random() returns 1 - j / 2^53
\* for randomOffset: the angle is the whole number of degrees and how far
\* below it the double returned lies.  random() * 45 is 45 - 45 j / 2^53,
\* that is 45 j / 64 units below 45, rounded; the two additions round again.
generateWheelAngleNearOne(targetSection, j, uRotations) ==
  LET totalSections == Len(WHEEL_SECTIONS_CONFIG)
      degreesPerSection == 360 \div totalSections
      baseSectionAngle == (SectionIndex(targetSection) - 1) * degreesPerSection
      additionalRotations == randomInt(3, 6, uRotations) * 360
      randomOffsetBelow == RoundToNearestEven(degreesPerSection * j, 64) \div 64
      withBase == baseSectionAngle + degreesPerSection
      withBaseBelow == IF baseSectionAngle = 0 THEN randomOffsetBelow
                       ELSE RoundBelow(withBase, randomOffsetBelow)
      total == withBase + additionalRotations
  IN [degrees |-> total, below |-> RoundBelow(total, withBaseBelow)]

\* ------------------------------------------------------------------------
\* Strings of the request: sequences of one-character strings
\* ------------------------------------------------------------------------
Digit == {"0", "1", "2", "3", "4", "5", "6", "7", "8", "9"}
Whitespace == {" ", "\t", "\n"}

\* s.trim().length === 0
IsBlank(s) == \A i \in DOMAIN s : s[i] \in Whitespace

\* /^(?:25[0-5]|2[0-4][0-9]|[01]?[0-9][0-9]?)$/ on one part of an address
MatchesOctet(p) ==
  /\ Len(p) \in 1..3
  /\ \A i \in DOMAIN p : p[i] \in Digit
  /\ Len(p) = 3 =>
       \/ p[1] \in {"0", "1"}
       \/ p[1] = "2" /\ p[2] \in {"0", "1", "2", "3", "4"}
       \/ p[1] = "2" /\ p[2] = "5" /\ p[3] \in {"0", "1", "2", "3", "4", "5"}

\* ipRegex.test(s): three octets each followed by a dot, then a fourth octet
ipRegexTest(s) ==
  LET dots == {i \in DOMAIN s : s[i] = "."}
      before(i) == Cardinality({j \in dots : j < i})
      part(k) == SelectSeq([i \in DOMAIN s |-> [c |-> s[i], k |-> before(i)]],
                           LAMBDA e : e.k = k /\ e.c # ".")
  IN /\ Cardinality(dots) = 3
     /\ \A k \in 0..3 : MatchesOctet([i \in DOMAIN part(k) |-> part(k)[i].c])

WheelSpinRequest(sessionId, userIp) == [sessionId |-> sessionId, userIp |-> userIp]

\* a request that also carries the other optional fields of WheelSpinRequestDTO
WithOptionalFields(req, userId, userAgent, metadata) ==
  [sessionId |-> req.sessionId, userIp |-> req.userIp, userId |-> userId,
   userAgent |-> userAgent, metadata |-> metadata]

\* validateRequest with the length of sessionId compared by >= instead of >
validateRequest_LengthInclusive(req) ==
  IF ~req.sessionId.def \/ req.sessionId.s = <<>> \/ IsBlank(req.sessionId.s)
  THEN <<requiredField("sessionId")>>
  ELSE IF Len(req.sessionId.s) >= MAX_SESSION_ID_LENGTH
  THEN <<invalidLength("sessionId", MAX_SESSION_ID_LENGTH)>>
  ELSE IF req.userIp.def /\ req.userIp.s # <<>> /\ ~ipRegexTest(req.userIp.s)
  THEN <<invalidFormat("userIp")>>
  ELSE <<>>

\* validateRequest: the exception it throws, as a sequence of at most one error
validateRequest(req) ==
  IF ~req.sessionId.def \/ req.sessionId.s = <<>> \/ IsBlank(req.sessionId.s)
  THEN <<requiredField("sessionId")>>
  ELSE IF Len(req.sessionId.s) > MAX_SESSION_ID_LENGTH
  THEN <<invalidLength("sessionId", MAX_SESSION_ID_LENGTH)>>
  ELSE IF req.userIp.def /\ req.userIp.s # <<>> /\ ~ipRegexTest(req.userIp.s)
  THEN <<invalidFormat("userIp")>>
  ELSE <<>>

\* ------------------------------------------------------------------------
\* DiscountPercentage and WheelResult
\* ------------------------------------------------------------------------
DiscountPercentage(percentage) == [value |-> percentage]

\* WheelResult.validateInputs: the Error it throws, as a sequence of at most one
validateInputs(id, sessionId, section, spinAngle, spinDuration) ==
  IF id = <<>> \/ IsBlank(id) THEN <<plainError("id")>>
  ELSE IF ~sessionId.def \/ sessionId.s = <<>> \/ IsBlank(sessionId.s)
  THEN <<plainError("sessionId")>>
  ELSE IF section \notin WheelSection THEN <<plainError("section")>>
  ELSE IF spinAngle < 0 \/ spinAngle > Degrees(360 * 10) THEN <<plainError("spinAngle")>>
  ELSE IF spinDuration < 1000 \/ spinDuration > 10000 THEN <<plainError("spinDuration")>>
  ELSE <<>>

\* new WheelResult(...): now is the instant of new Date() (timestamp) and now2
\* the one of Date.now() (expiresAt)
WheelResult(id, sessionId, section, discountPercentage, spinAngle, spinDuration, userIp, now, now2) ==
  [id |-> id, sessionId |-> sessionId, section |-> section,
   discountPercentage |-> discountPercentage, spinAngle |-> spinAngle,
   spinDuration |-> spinDuration, timestamp |-> now, userIp |-> userIp,
   isRedeemed |-> FALSE, redeemedAt |-> NoDate, expiresAt |-> now2 + 24 * 60 * 60 * 1000]

isWinningResult(result) == result.section # "TRY_AGAIN"

\* what a method call leaves: the object, and the message of the Error it
\* threw, if any
Outcome(this, error) == [this |-> this, error |-> error]

INTEL == <<"I", "N", "T", "E", "L">>

\* s.toUpperCase() of a string of letters and digits
toUpperCase(s) ==
  LET lower == <<"a", "b", "c", "d", "e", "f", "g", "h", "i", "j", "k", "l", "m",
                 "n", "o", "p", "q", "r", "s", "t", "u", "v", "w", "x", "y", "z">>
      upper == <<"A", "B", "C", "D", "E", "F", "G", "H", "I", "J", "K", "L", "M",
                 "N", "O", "P", "Q", "R", "S", "T", "U", "V", "W", "X", "Y", "Z">>
  IN [i \in DOMAIN s |->
        IF \E k \in DOMAIN lower : lower[k] = s[i]
        THEN upper[CHOOSE k \in DOMAIN lower : lower[k] = s[i]]
        ELSE s[i]]

\* n.toString(radix) of an integer n >= 0
RECURSIVE numberToString(_, _)
numberToString(n, radix) ==
  LET digits == <<"0", "1", "2", "3", "4", "5", "6", "7", "8", "9",
                  "a", "b", "c", "d", "e", "f", "g", "h", "i", "j", "k", "l", "m",
                  "n", "o", "p", "q", "r", "s", "t", "u", "v", "w", "x", "y", "z">>
  IN IF n < radix THEN <<digits[n + 1]>>
     ELSE Append(numberToString(n \div radix, radix), digits[(n % radix) + 1])

\* getDiscountCode(): the code, or the message of the Error thrown
getDiscountCode(result) ==
  IF ~isWinningResult(result)
  THEN Outcome(<<>>, <<"No hay código de descuento para resultados de \"Try Again\"">>)
  ELSE LET shortId == toUpperCase(SubSeq(result.id, 1, Min(8, Len(result.id))))
           timeCode == toUpperCase(numberToString(result.timestamp, 36))
           percentage == numberToString(result.discountPercentage.value, 10)
           code == INTEL \o percentage \o shortId \o timeCode
       IN Outcome(SubSeq(code, 1, Min(16, Len(code))), <<>>)

\* ------------------------------------------------------------------------
\* Inputs
\* ------------------------------------------------------------------------
\* the execute() calls that can be in flight at once
Req == {"r1", "r2"}

\* the clock advances between steps
TickSet == {DEFAULT_COOLDOWN_MS - 1, DEFAULT_COOLDOWN_MS}

\* local time minus UTC of the server process: UTC, and UTC-5
TzOffsets == {0, 0 - 5 * HOUR_MS}

\* midnight UTC of the day the runs start on
Base == 3 * DAY_MS

S1 == <<"s", "1">>
HookSession == <<"k", "3", "x", "9", "q", "0", "z", "7", "a">>
LongSession == [i \in 1..(MAX_SESSION_ID_LENGTH + 1) |-> "x"]
FullSession == [i \in 1..MAX_SESSION_ID_LENGTH |-> "x"]
GoodIp == <<"1", "0", ".", "0", ".", "0", ".", "2", "5", "5">>
BadIp == <<"2", "5", "6", ".", "1", ".", "1", ".", "1">>

RequestInputs ==
  { WheelSpinRequest(Str(S1), Undefined),
    WheelSpinRequest(Str(S1), Str(GoodIp)),
    WheelSpinRequest(Str(S1), Str(BadIp)),
    WheelSpinRequest(Str(<<" ", " ">>), Undefined),
    WheelSpinRequest(Str(LongSession), Undefined),
    WheelSpinRequest(Undefined, Undefined),
    WheelSpinRequest(Str(<<>>), Undefined),
    WheelSpinRequest(Str(FullSession), Undefined),
    WheelSpinRequest(Str(S1), Str(<<>>)),
    WithOptionalFields(WheelSpinRequest(Str(S1), Undefined),
                       Str(<<" ">>), Str(LongSession), Str(<<"{", "}">>)) }

IdA == <<"a", "B", "3", "d", "E", "6", "g", "H", "9", "j", "K", "2", "m", "N", "5", "p">>
IdB == <<"Z", "z", "0", "Q", "q", "7", "W", "w", "1", "X", "x", "4", "Y", "y", "8", "V">>

\* the values of Math.random() one execute() consumes: for the section, the
\* offset inside the slice, the extra rotations and the duration; and the id
\* the ids generateId(16) returns
RandomDraw(section, offset, rotations, duration) ==
  [section |-> section, offset |-> offset, rotations |-> rotations,
   duration |-> duration]

\* a 5% win with the smallest angle and duration; the 50% prize; no prize
\* with the largest angle and duration
LowDraw == RandomDraw(0, 0, 0, 0)
PrizeDraw == RandomDraw(940, 500, 600, 500)
HighDraw == RandomDraw(999, 999, 999, 999)
RandomDraws == {LowDraw, PrizeDraw, HighDraw}

Ids == {IdA, IdB}

\* the requests the callers of the server send in Spec
ApiRequests ==
  { WheelSpinRequest(Str(S1), Undefined),
    WheelSpinRequest(Str(<<" ", " ">>), Undefined) }

\* the instants a stored spin can carry, all before the harness starts
StoredInstants == {Base - 1, Base, Base + 1, Base + DEFAULT_COOLDOWN_MS}

StoredSpin(timestamp, inSession) == [timestamp |-> timestamp, inSession |-> inSession]

RECURSIVE SeqsUpTo(_, _)
SeqsUpTo(S, n) ==
  IF n = 0 THEN {<<>>}
  ELSE SeqsUpTo(S, n - 1)
       \cup {Append(q, x) : q \in {p \in SeqsUpTo(S, n - 1) : Len(p) = n - 1}, x \in S}

\* the histories a store can hold for one caller: at most MaxHist spins, the
\* newest first, each of the current session or of an earlier one
StoredHistories ==
  { h \in SeqsUpTo({StoredSpin(t, b) : t \in StoredInstants, b \in BOOLEAN}, MaxHist) :
      \A i \in 1..(Len(h) - 1) : h[i].timestamp >= h[i + 1].timestamp }

\* the limits the environment can set
LimitChoices ==
  {SpinLimits(a, b, DEFAULT_COOLDOWN_MS) : a \in 1..MaxCap, b \in 1..MaxCap}
    \cup {defaultLimits}

\* ------------------------------------------------------------------------
\* State
\* ------------------------------------------------------------------------
VARIABLES
  clock,          \* the wall clock, ms
  tzOffset,       \* local time minus UTC of the server process, ms
  limits,         \* what getSpinLimits() returns (the process environment)
  pc,             \* where each execute() call stands
  request,        \* its request
  context,        \* its SpinProcessingContext, once built
  reads,          \* the instants its clock reads returned
  wheelResult,    \* the WheelResult it constructed
  outcome,        \* what it returned or threw
  startTime,      \* the instant it started (startTime of execute)
  prior,          \* the instants of the spins of its session that had
                  \* returned when it started
  seenAtLoad,     \* the saved spins of its session when it loaded the history
  returned,       \* the spins execute() has returned: session and instant
  savedLog,       \* the 'Resultado de rueda guardado' entries of the logger
  hook,           \* the useWheel hook of one client
  storedHistory,  \* the history handed to the limiter by the harness
  validation,     \* the result of validateSpinLimits in the harness
  drift,          \* by how much the clock can advance between two reads of
                  \* it inside one synchronous step
  calls,          \* execute() calls started
  ticks,          \* clock advances taken
  redeemLog,      \* the redeemWheelDiscount calls made and what each returned
  entity,         \* one WheelResult object and the calls made on it
  probe           \* one call of a pure function: its input and its result

vars == <<clock, tzOffset, limits, pc, request, context, reads, wheelResult,
          outcome, startTime, prior, seenAtLoad, returned, savedLog, hook, storedHistory, validation,
          drift, calls, ticks, redeemLog, entity, probe>>

\* the state of the spin server and of the client hook
serverVars == <<clock, tzOffset, limits, pc, request, context, reads, wheelResult,
                outcome, startTime, prior, seenAtLoad, returned, savedLog, hook,
                storedHistory, validation, drift, calls, ticks>>

NoRequest == WheelSpinRequest(Undefined, Undefined)
NoReads == [check |-> NoDate, cooldown |-> NoDate, validate |-> NoDate]
NoHook == [isSpinning |-> FALSE, lastResult |-> <<>>, pending |-> "none", timer |-> FALSE]

InitCommon ==
  /\ pc = [r \in Req |-> "idle"]
  /\ request = [r \in Req |-> NoRequest]
  /\ context = [r \in Req |-> <<>>]
  /\ reads = [r \in Req |-> NoReads]
  /\ wheelResult = [r \in Req |-> <<>>]
  /\ outcome = [r \in Req |-> <<>>]
  /\ startTime = [r \in Req |-> NoDate]
  /\ prior = [r \in Req |-> <<>>]
  /\ seenAtLoad = [r \in Req |-> 0]
  /\ returned = <<>>
  /\ savedLog = <<>>
  /\ hook = NoHook
  /\ validation = <<>>
  /\ calls = 0
  /\ ticks = 0
  /\ redeemLog = <<>>
  /\ entity = <<>>
  /\ probe = <<>>

\* the server after start-up: nothing in flight, nothing saved.  The clock
\* advances between the steps (Tick), not inside them.
Init ==
  /\ InitCommon
  /\ drift = {0}
  /\ clock = Base + 12 * HOUR_MS
  /\ tzOffset \in TzOffsets
  /\ limits \in {defaultLimits, SpinLimits(1, 1, DEFAULT_COOLDOWN_MS)}
  /\ storedHistory = <<>>

\* the limiter harness: a history, limits and an instant drawn from the
\* bounded sets
InitLimiter ==
  /\ InitCommon
  /\ drift = {0, 1}
  /\ clock \in {Base + DEFAULT_COOLDOWN_MS, Base + DAY_MS - 1}
  /\ tzOffset \in TzOffsets
  /\ limits \in LimitChoices
  /\ storedHistory \in StoredHistories

\* ------------------------------------------------------------------------
\* SpinWheelUseCase.execute, one action per stretch of code between awaits
\* ------------------------------------------------------------------------
Thrown(error) == [ok |-> FALSE, value |-> <<>>, error |-> <<error>>]
Returned(value) == [ok |-> TRUE, value |-> <<value>>, error |-> <<>>]

\* the saved spins of a session that the logger holds
SavedOf(sessionId) ==
  SelectSeq(savedLog, LAMBDA e : e.sessionId = sessionId)

\* the instants of the spins execute() has returned to a session
ReturnedTo(sessionId) ==
  LET mine == SelectSeq(returned, LAMBDA e : e.sessionId = sessionId)
  IN [i \in DOMAIN mine |-> mine[i].timestamp]

\* execute() up to the await of loadUserSpinHistory: validateRequest, and the
\* catch block (log, rethrow) when it throws
Begin(r, req) ==
  /\ pc[r] = "idle"
  /\ calls < MaxCalls
  /\ calls' = calls + 1
  /\ request' = [request EXCEPT ![r] = req]
  /\ context' = [context EXCEPT ![r] = <<>>]
  /\ reads' = [reads EXCEPT ![r] = NoReads]
  /\ wheelResult' = [wheelResult EXCEPT ![r] = <<>>]
  /\ seenAtLoad' = [seenAtLoad EXCEPT ![r] = 0]
  /\ startTime' = [startTime EXCEPT ![r] = clock]
  /\ prior' = [prior EXCEPT ![r] = ReturnedTo(req.sessionId)]
  /\ IF validateRequest(req) # <<>>
     THEN /\ pc' = [pc EXCEPT ![r] = "failed"]
          /\ outcome' = [outcome EXCEPT ![r] = <<Thrown(validateRequest(req)[1])>>]
     ELSE /\ pc' = [pc EXCEPT ![r] = "loading"]
          /\ outcome' = [outcome EXCEPT ![r] = <<>>]
  /\ UNCHANGED <<clock, tzOffset, limits, returned, savedLog, storedHistory,
                 validation, drift, ticks, redeemLog, entity, probe>>

\* a caller of the API starts execute(request)
Execute(r, req) ==
  /\ Begin(r, req)
  /\ UNCHANGED hook

\* loadUserSpinHistory: the history is always the empty one
loadUserSpinHistory(req) == UserSpinHistory(req.sessionId, <<>>, <<>>, NoDate)

LoadUserSpinHistory(r) ==
  /\ pc[r] = "loading"
  /\ pc' = [pc EXCEPT ![r] = "loaded"]
  /\ context' = [context EXCEPT ![r] = <<[userHistory |-> loadUserSpinHistory(request[r])]>>]
  /\ seenAtLoad' = [seenAtLoad EXCEPT ![r] = Len(SavedOf(request[r].sessionId))]
  /\ UNCHANGED <<clock, tzOffset, limits, request, reads, wheelResult, outcome,
                 startTime, prior, returned, savedLog, hook, storedHistory,
                 validation, drift, calls, ticks, redeemLog, entity, probe>>

\* the harness hands the limiter the history a store holds for the caller
loadStoredHistory(req, stored) ==
  UserSpinHistory(req.sessionId,
                  [i \in DOMAIN stored |-> [timestamp |-> stored[i].timestamp]],
                  SelectSeq(stored, LAMBDA e : e.inSession),
                  IF stored = <<>> THEN NoDate ELSE stored[1].timestamp)

LoadStoredHistory(r) ==
  /\ pc[r] = "loading"
  /\ pc' = [pc EXCEPT ![r] = "loaded"]
  /\ context' = [context EXCEPT
                   ![r] = <<[userHistory |-> loadStoredHistory(request[r], storedHistory)]>>]
  /\ seenAtLoad' = [seenAtLoad EXCEPT ![r] = Len(SavedOf(request[r].sessionId))]
  /\ UNCHANGED <<clock, tzOffset, limits, request, reads, wheelResult, outcome,
                 startTime, prior, returned, savedLog, hook, storedHistory,
                 validation, drift, calls, ticks, redeemLog, entity, probe>>

\* the SpinProcessingContext createProcessingContext returns
SpinProcessingContext(req, userHistory, lim, draw, now, now2) ==
  LET selectedSection == generateWheelSection(draw.section)
  IN [request |-> req,
      userHistory |-> userHistory,
      limits |-> lim,
      selectedSection |-> selectedSection,
      spinAngle |-> generateWheelAngle(selectedSection, draw.offset, draw.rotations),
      spinDuration |-> generateSpinDuration(draw.duration),
      discountPercentage |-> DiscountPercentage(SectionDiscount(selectedSection)),
      canSpin |-> checkCanSpin(userHistory, lim, now),
      cooldownRemaining |-> calculateCooldownRemaining(userHistory, lim, now2)]

\* createProcessingContext after the history has been loaded
CreateProcessingContext(r, draw) ==
  /\ pc[r] = "loaded"
  /\ \E d \in drift :
       /\ context' = [context EXCEPT
                        ![r] = <<SpinProcessingContext(request[r], context[r][1].userHistory,
                                                       limits, draw, clock, clock + d)>>]
       /\ reads' = [reads EXCEPT ![r] = [@ EXCEPT !.check = clock, !.cooldown = clock + d]]
       /\ wheelResult' = [wheelResult EXCEPT ![r] = <<>>]
       /\ clock' = clock + d
       /\ pc' = [pc EXCEPT ![r] = "context"]
  /\ UNCHANGED <<tzOffset, limits, request, outcome, startTime, prior, seenAtLoad,
                 returned, savedLog, hook, storedHistory, validation, drift, calls,
                 ticks, redeemLog, entity, probe>>

\* execute() constructing the WheelResult before it checks eligibility
ProcessSpin_ConstructFirst(r, id) ==
  /\ pc[r] = "context"
  /\ reads' = [reads EXCEPT ![r] = [@ EXCEPT !.validate = clock]]
  /\ LET c == context[r][1]
     IN wheelResult' =
          [wheelResult EXCEPT
             ![r] = <<WheelResult(id, c.request.sessionId, c.selectedSection,
                                  c.discountPercentage, c.spinAngle, c.spinDuration,
                                  c.request.userIp, clock, clock)>>]
  /\ IF validateCanSpin(context[r][1], clock) # <<>>
     THEN /\ pc' = [pc EXCEPT ![r] = "failed"]
          /\ outcome' = [outcome EXCEPT
                           ![r] = <<Thrown(validateCanSpin(context[r][1], clock)[1])>>]
     ELSE /\ pc' = [pc EXCEPT ![r] = "processed"]
          /\ UNCHANGED outcome
  /\ UNCHANGED <<clock, tzOffset, limits, request, context, startTime, prior,
                 seenAtLoad, returned, savedLog, hook, storedHistory, validation,
                 drift, calls, ticks, redeemLog, entity, probe>>

\* execute() from validateCanSpin to the await of processWheelSpin: the
\* eligibility check first, then the WheelResult is constructed
ProcessSpin(r, id) ==
  /\ pc[r] = "context"
  /\ reads' = [reads EXCEPT ![r] = [@ EXCEPT !.validate = clock]]
  /\ IF validateCanSpin(context[r][1], clock) # <<>>
     THEN /\ pc' = [pc EXCEPT ![r] = "failed"]
          /\ outcome' = [outcome EXCEPT
                           ![r] = <<Thrown(validateCanSpin(context[r][1], clock)[1])>>]
          /\ UNCHANGED <<wheelResult, clock>>
     ELSE \E d \in drift :
            LET c == context[r][1]
                bad == validateInputs(id, c.request.sessionId, c.selectedSection,
                                      c.spinAngle, c.spinDuration)
            IN IF bad # <<>>
               THEN /\ pc' = [pc EXCEPT ![r] = "failed"]
                    /\ outcome' = [outcome EXCEPT ![r] = <<Thrown(bad[1])>>]
                    /\ UNCHANGED <<wheelResult, clock>>
               ELSE /\ pc' = [pc EXCEPT ![r] = "processed"]
                    /\ wheelResult' =
                         [wheelResult EXCEPT
                            ![r] = <<WheelResult(id, c.request.sessionId, c.selectedSection,
                                                 c.discountPercentage, c.spinAngle,
                                                 c.spinDuration, c.request.userIp,
                                                 clock, clock + d)>>]
                    /\ clock' = clock + d
                    /\ UNCHANGED outcome
  /\ UNCHANGED <<tzOffset, limits, request, context, startTime, prior, seenAtLoad,
                 returned, savedLog, hook, storedHistory, validation, drift, calls,
                 ticks, redeemLog, entity, probe>>

\* the entry logger.info('Resultado de rueda guardado', ...) writes: when, and
\* for which session
SavedEntry(result, now) ==
  [timestamp |-> now, sessionId |-> result.sessionId]

\* saveSpinResult: nothing is stored, the result is logged
SaveSpinResult(r) ==
  /\ pc[r] = "processed"
  /\ pc' = [pc EXCEPT ![r] = "saved"]
  /\ savedLog' = Append(savedLog, SavedEntry(wheelResult[r][1], clock))
  /\ UNCHANGED <<clock, tzOffset, limits, request, context, reads, wheelResult,
                 outcome, startTime, prior, seenAtLoad, returned, hook,
                 storedHistory, validation, drift, calls, ticks, redeemLog, entity, probe>>

\* toResponseDTO that gives expiresAt for every result
toResponseDTO_AlwaysExpires(result, nextSpinAllowedAt) ==
  [id |-> result.id, sessionId |-> result.sessionId, section |-> result.section,
   discountPercentage |-> result.discountPercentage.value,
   spinAngle |-> result.spinAngle, spinDuration |-> result.spinDuration,
   timestamp |-> result.timestamp, isWinning |-> isWinningResult(result),
   discountCode |-> IF isWinningResult(result) THEN Str(getDiscountCode(result).this)
                    ELSE Undefined,
   expiresAt |-> result.expiresAt,
   nextSpinAllowedAt |-> nextSpinAllowedAt]

\* toResponseDTO(wheelResult, nextSpinAllowedAt)
toResponseDTO(result, nextSpinAllowedAt) ==
  [id |-> result.id, sessionId |-> result.sessionId, section |-> result.section,
   discountPercentage |-> result.discountPercentage.value,
   spinAngle |-> result.spinAngle, spinDuration |-> result.spinDuration,
   timestamp |-> result.timestamp, isWinning |-> isWinningResult(result),
   discountCode |-> IF isWinningResult(result) THEN Str(getDiscountCode(result).this)
                    ELSE Undefined,
   expiresAt |-> IF isWinningResult(result) THEN result.expiresAt ELSE NoDate,
   nextSpinAllowedAt |-> nextSpinAllowedAt]

\* the SpinWheelResult execute() returns
SpinWheelResult(c, result, now, tz) ==
  LET nextSpinInfo == calculateNextSpinInfo(c, now, tz)
  IN [result |-> toResponseDTO(result, nextSpinInfo.nextSpinAllowedAt),
      canSpinAgain |-> nextSpinInfo.canSpinAgain,
      nextSpinAllowedAt |-> nextSpinInfo.nextSpinAllowedAt,
      spinsRemainingToday |-> nextSpinInfo.spinsRemainingToday]

\* execute() after the await of saveSpinResult: logSpinEvent,
\* calculateNextSpinInfo, return
Finish(r) ==
  /\ pc[r] = "saved"
  /\ pc' = [pc EXCEPT ![r] = "done"]
  /\ outcome' = [outcome EXCEPT
                   ![r] = <<Returned(SpinWheelResult(context[r][1], wheelResult[r][1],
                                                     clock, tzOffset))>>]
  /\ returned' = Append(returned, [sessionId |-> request[r].sessionId,
                                   timestamp |-> wheelResult[r][1].timestamp])
  /\ UNCHANGED <<clock, tzOffset, limits, request, context, reads, wheelResult,
                 startTime, prior, seenAtLoad, savedLog, hook, storedHistory,
                 validation, drift, calls, ticks, redeemLog, entity, probe>>

\* ------------------------------------------------------------------------
\* The client: apiRequest and the useWheel hook
\* ------------------------------------------------------------------------
\* response.ok of the reply to POST /wheel/spin: the status of a thrown
\* ValidationException is its statusCode
ResponseOk(out) ==
  IF out.ok THEN TRUE ELSE out.error[1].statusCode \in 200..299

\* the 'Fallback result para desarrollo' of the hook's catch block
fallbackResult ==
  [section |-> "10% OFF", discountPercentage |-> 10, isWinning |-> TRUE]

\* useWheel.spin(): ignored while spinning, else POST /wheel/spin
HookSpin(r) ==
  /\ ~hook.isSpinning
  /\ hook.pending = "none"
  /\ Begin(r, WheelSpinRequest(Str(HookSession), Undefined))
  /\ hook' = [hook EXCEPT !.isSpinning = TRUE, !.pending = r]

\* what useWheel.spin() stores and returns for a reply: the body of a reply
\* that arrived with response.ok, and the fallback when apiRequest threw
\* (the fetch failed, or the reply was not ok)
hookResult(out, arrived) ==
  IF arrived /\ ResponseOk(out)
  THEN [section |-> out.value[1].result.section,
        discountPercentage |-> out.value[1].result.discountPercentage,
        isWinning |-> out.value[1].result.isWinning]
  ELSE fallbackResult

\* the caller gets what execute() returned or threw; the hook stores it
Respond(r) ==
  /\ pc[r] \in {"done", "failed"}
  /\ pc' = [pc EXCEPT ![r] = "idle"]
  /\ request' = [request EXCEPT ![r] = NoRequest]
  /\ context' = [context EXCEPT ![r] = <<>>]
  /\ reads' = [reads EXCEPT ![r] = NoReads]
  /\ wheelResult' = [wheelResult EXCEPT ![r] = <<>>]
  /\ outcome' = [outcome EXCEPT ![r] = <<>>]
  /\ seenAtLoad' = [seenAtLoad EXCEPT ![r] = 0]
  /\ startTime' = [startTime EXCEPT ![r] = NoDate]
  /\ prior' = [prior EXCEPT ![r] = <<>>]
  /\ IF hook.pending = r
     THEN \E arrived \in BOOLEAN :
            hook' = [hook EXCEPT
                       !.lastResult = <<[result |-> hookResult(outcome[r][1], arrived),
                                         granted |-> outcome[r][1].ok,
                                         arrived |-> arrived]>>,
                       !.pending = "none",
                       !.timer = TRUE]
     ELSE UNCHANGED hook
  /\ UNCHANGED <<clock, tzOffset, limits, returned, savedLog, storedHistory,
                 validation, drift, calls, ticks, redeemLog, entity, probe>>

\* setTimeout(() => setIsSpinning(false), 3000)
HookTimer ==
  /\ hook.timer
  /\ hook' = [hook EXCEPT !.timer = FALSE, !.isSpinning = FALSE]
  /\ UNCHANGED <<clock, tzOffset, limits, pc, request, context, reads, wheelResult,
                 outcome, startTime, prior, seenAtLoad, returned, savedLog,
                 storedHistory, validation, drift, calls, ticks, redeemLog, entity, probe>>

\* time passes between two requests
Tick ==
  /\ ticks < MaxTicks
  /\ \A r \in Req : pc[r] = "idle"
  /\ ticks' = ticks + 1
  /\ \E d \in TickSet : clock' = clock + d
  /\ UNCHANGED <<tzOffset, limits, pc, request, context, reads, wheelResult, outcome,
                 startTime, prior, seenAtLoad, returned, savedLog, hook,
                 storedHistory, validation, drift, calls, redeemLog, entity, probe>>

\* ------------------------------------------------------------------------
\* The limiter harness: validateSpinLimits on the stored history
\* ------------------------------------------------------------------------
ValidateSpinLimits ==
  /\ validation = <<>>
  /\ pc["r1"] \in {"done", "failed"}
  /\ \E d1 \in drift, d2 \in drift :
       /\ validation' =
            <<[result |-> validateSpinLimits(storedHistory, limits, clock, clock + d1,
                                             clock + d1 + d2, tzOffset),
               now |-> clock, now2 |-> clock + d1, now3 |-> clock + d1 + d2]>>
       /\ clock' = clock + d1 + d2
  /\ UNCHANGED <<tzOffset, limits, pc, request, context, reads, wheelResult, outcome,
                 startTime, prior, seenAtLoad, returned, savedLog, hook,
                 storedHistory, drift, calls, ticks, redeemLog, entity, probe>>

\* ------------------------------------------------------------------------
\* Specifications
\* ------------------------------------------------------------------------
Next ==
  \/ \E r \in Req, req \in ApiRequests : Execute(r, req)
  \/ \E r \in Req : LoadUserSpinHistory(r)
  \/ \E r \in Req, draw \in {LowDraw, HighDraw} : CreateProcessingContext(r, draw)
  \/ \E r \in Req : ProcessSpin(r, IdA)
  \/ \E r \in Req : SaveSpinResult(r)
  \/ \E r \in Req : Finish(r)
  \/ \E r \in Req : Respond(r)
  \/ Tick

\* the server as it is, serving up to two requests at once
Spec == Init /\ [][Next]_vars

NextClient ==
  \/ HookSpin("r1")
  \/ LoadUserSpinHistory("r1")
  \/ \E draw \in RandomDraws : CreateProcessingContext("r1", draw)
  \/ \E id \in Ids : ProcessSpin("r1", id)
  \/ SaveSpinResult("r1")
  \/ Finish("r1")
  \/ Respond("r1")
  \/ HookTimer
  \/ Tick

\* one browser with the useWheel hook, and the server behind it
SpecClient == Init /\ [][NextClient]_vars

\* the error a store raises when a read or a write of it fails
StorageError == plainError("storage")

\* await loadUserSpinHistory(request) rejects: createProcessingContext
\* rejects, the catch of execute() logs and rethrows
LoadUserSpinHistoryRejects(r) ==
  /\ pc[r] = "loading"
  /\ pc' = [pc EXCEPT ![r] = "failed"]
  /\ outcome' = [outcome EXCEPT ![r] = <<Thrown(StorageError)>>]
  /\ UNCHANGED <<clock, tzOffset, limits, request, context, reads, wheelResult,
                 startTime, prior, seenAtLoad, returned, savedLog, hook, storedHistory,
                 validation, drift, calls, ticks, redeemLog, entity, probe>>

\* await saveSpinResult(wheelResult) rejects: the catch of execute() logs
\* and rethrows
SaveSpinResultRejects(r) ==
  /\ pc[r] = "processed"
  /\ pc' = [pc EXCEPT ![r] = "failed"]
  /\ outcome' = [outcome EXCEPT ![r] = <<Thrown(StorageError)>>]
  /\ UNCHANGED <<clock, tzOffset, limits, request, context, reads, wheelResult,
                 startTime, prior, seenAtLoad, returned, savedLog, hook, storedHistory,
                 validation, drift, calls, ticks, redeemLog, entity, probe>>

NextStorage ==
  \/ HookSpin("r1")
  \/ LoadUserSpinHistory("r1")
  \/ LoadUserSpinHistoryRejects("r1")
  \/ \E draw \in RandomDraws : CreateProcessingContext("r1", draw)
  \/ \E id \in Ids : ProcessSpin("r1", id)
  \/ SaveSpinResult("r1")
  \/ SaveSpinResultRejects("r1")
  \/ Finish("r1")
  \/ Respond("r1")
  \/ HookTimer
  \/ Tick

\* the browser and the server, with a store whose reads and writes can fail
SpecStorage == Init /\ [][NextStorage]_vars

NextLimiter ==
  \/ \E req \in RequestInputs : Execute("r1", req)
  \/ LoadStoredHistory("r1")
  \/ \E draw \in RandomDraws : CreateProcessingContext("r1", draw)
  \/ \E id \in Ids : ProcessSpin("r1", id)
  \/ SaveSpinResult("r1")
  \/ Finish("r1")
  \/ ValidateSpinLimits

\* one execute() call and one validateSpinLimits call on a drawn history
SpecLimiter == InitLimiter /\ [][NextLimiter]_vars

\* ------------------------------------------------------------------------
\* Discount codes: SpinWheelUseCase.redeemWheelDiscount
\* ------------------------------------------------------------------------
Upper == {"A", "B", "C", "D", "E", "F", "G", "H", "I", "J", "K", "L", "M",
          "N", "O", "P", "Q", "R", "S", "T", "U", "V", "W", "X", "Y", "Z"}
UpperAlnum == Upper \cup Digit

\* the characters of w stand in s from position p on
HasAt(s, p, w) ==
  /\ p + Len(w) - 1 <= Len(s)
  /\ \A i \in DOMAIN w : s[p + i - 1] = w[i]

\* /^INTEL\d+[A-Z0-9]+$/.test(code)
codeRegexTest(code) ==
  /\ HasAt(code, 1, INTEL)
  /\ \E k \in 6..(Len(code) - 1) :
       /\ \A i \in 6..k : code[i] \in Digit
       /\ \A i \in (k + 1)..Len(code) : code[i] \in UpperAlnum

\* code.match(/INTEL(\d+)/)[1]: the digits the leftmost match captures,
\* <<>> when there is no match
matchIntelDigits(code) ==
  LET starts == {p \in DOMAIN code :
                   /\ HasAt(code, p, INTEL)
                   /\ p + 5 <= Len(code)
                   /\ code[p + 5] \in Digit}
  IN IF starts = {} THEN <<>>
     ELSE LET p == CHOOSE q \in starts : \A o \in starts : q <= o
              stop == CHOOSE e \in (p + 5)..Len(code) :
                        /\ \A i \in (p + 5)..e : code[i] \in Digit
                        /\ e = Len(code) \/ code[e + 1] \notin Digit
          IN SubSeq(code, p + 5, stop)

DigitValue(d) == CHOOSE n \in 0..9 : ToString(n) = d

\* parseInt(digits, 10) of a string of decimal digits
RECURSIVE parseInt(_)
parseInt(digits) ==
  IF digits = <<>> THEN 0
  ELSE parseInt(SubSeq(digits, 1, Len(digits) - 1)) * 10 + DigitValue(digits[Len(digits)])

\* what redeemWheelDiscount resolves to.  validUntil is now + 30 days, kept
\* as the instant and the days added to it.
RedeemResult(isValid, discount) == [isValid |-> isValid, discount |-> discount]

redeemWheelDiscount(discountCode, userEmail, now) ==
  IF ~codeRegexTest(discountCode) THEN RedeemResult(FALSE, <<>>)
  ELSE IF matchIntelDigits(discountCode) = <<>> THEN RedeemResult(FALSE, <<>>)
  ELSE RedeemResult(TRUE,
                    <<[percentage |-> parseInt(matchIntelDigits(discountCode)),
                       validUntil |-> [from |-> now, days |-> REDEEM_VALID_DAYS],
                       alreadyRedeemed |-> FALSE]>>)

\* the codes and the e-mail addresses presented for redemption
DiscountCodes ==
  { INTEL \o <<"1", "0", "A", "B">>,
    INTEL \o <<"5", "X">>,
    INTEL \o <<"5">>,
    INTEL \o <<"1", "0">>,
    INTEL \o <<"A", "B">>,
    INTEL \o <<"1", "0", "a", "b">>,
    INTEL \o <<"1", "0", "-", "A">>,
    <<"X">> \o INTEL \o <<"1", "0", "A">>,
    <<"i", "n", "t", "e", "l", "1", "0", "A", "B">>,
    INTEL \o <<"X">> \o INTEL \o <<"5", "A">>,
    INTEL,
    <<>> }
Emails == {"ana@example.com", "luis@example.com"}

\* one call of redeemWheelDiscount: it has no await, so it runs to its
\* return without another call in between
RedeemWheelDiscount(discountCode, userEmail) ==
  /\ Len(redeemLog) < MaxRedeems
  /\ redeemLog' = Append(redeemLog,
                         [code |-> discountCode, userEmail |-> userEmail,
                          result |-> redeemWheelDiscount(discountCode, userEmail, clock)])
  /\ UNCHANGED <<serverVars, entity, probe>>

\* SubmitDiscountFormUseCase.validateWheelDiscount: undefined (<<>>) or the
\* WheelDiscountInfo, whose expiresAt is now + 24 hours
validateWheelDiscount(discountCode, now) ==
  IF ~HasAt(discountCode, 1, INTEL) THEN <<>>
  ELSE IF matchIntelDigits(discountCode) = <<>> THEN <<>>
  ELSE <<[code |-> discountCode,
          percentage |-> parseInt(matchIntelDigits(discountCode)),
          isValid |-> TRUE,
          expiresAt |-> now + 24 * 60 * 60 * 1000]>>

\* one call of a function on a value: what was called, on what, the result
Probe(fn, input, result) == [fn |-> fn, input |-> input, result |-> result]

\* the discount form validates the code it was sent
ValidateWheelDiscount(discountCode) ==
  /\ probe = <<>>
  /\ probe' = <<Probe("validateWheelDiscount", discountCode,
                      validateWheelDiscount(discountCode, clock))>>
  /\ UNCHANGED <<serverVars, redeemLog, entity>>

\* a quiet server at a fixed instant, for the calls on values and objects
InitDomain ==
  /\ InitCommon
  /\ drift = {0}
  /\ clock = Base + 12 * HOUR_MS
  /\ tzOffset = 0
  /\ limits = defaultLimits
  /\ storedHistory = <<>>

NextRedeem ==
  \/ \E discountCode \in DiscountCodes, userEmail \in Emails :
       RedeemWheelDiscount(discountCode, userEmail)
  \/ \E discountCode \in DiscountCodes : ValidateWheelDiscount(discountCode)

\* redemption requests against the server
SpecRedeem == InitDomain /\ [][NextRedeem]_vars

\* ------------------------------------------------------------------------
\* The WheelResult entity: isExpired, markAsRedeemed, extendExpiration
\* ------------------------------------------------------------------------
\* isExpired(), with now the instant its new Date() reads
isExpired(result, now) == now > result.expiresAt

\* markAsRedeemed that does not look at the expiration
markAsRedeemed_IgnoresExpiry(result, now, now2) ==
  IF ~isWinningResult(result)
  THEN Outcome(result, <<"No se puede canjear un resultado de Try Again">>)
  ELSE IF result.isRedeemed
  THEN Outcome(result, <<"Este descuento ya ha sido canjeado">>)
  ELSE Outcome([result EXCEPT !.isRedeemed = TRUE, !.redeemedAt = now2], <<>>)

\* markAsRedeemed(), with now the instant isExpired() reads and now2 the one
\* redeemedAt is set to
markAsRedeemed(result, now, now2) ==
  IF ~isWinningResult(result)
  THEN Outcome(result, <<"No se puede canjear un resultado de Try Again">>)
  ELSE IF result.isRedeemed
  THEN Outcome(result, <<"Este descuento ya ha sido canjeado">>)
  ELSE IF isExpired(result, now)
  THEN Outcome(result, <<"Este descuento ha expirado">>)
  ELSE Outcome([result EXCEPT !.isRedeemed = TRUE, !.redeemedAt = now2], <<>>)

\* extendExpiration that refuses only zero hours
extendExpiration_ZeroOnly(result, additionalHours) ==
  IF additionalHours = 0
  THEN Outcome(result, <<"Las horas adicionales deben ser mayor a 0">>)
  ELSE Outcome([result EXCEPT !.expiresAt = @ + additionalHours * 60 * 60 * 1000], <<>>)

\* extendExpiration(additionalHours)
extendExpiration(result, additionalHours) ==
  IF additionalHours <= 0
  THEN Outcome(result, <<"Las horas adicionales deben ser mayor a 0">>)
  ELSE Outcome([result EXCEPT !.expiresAt = @ + additionalHours * 60 * 60 * 1000], <<>>)

\* the hours passed to extendExpiration, and the time that passes between
\* two calls on the object
ExtensionHours == {0 - 1, 0, 1, 24}
EntityTicks == {1, 24 * HOUR_MS - 1, 24 * HOUR_MS}

\* the object, the last call made on it (the method, the object before the
\* call, the instants the call read, the message of the Error thrown) and
\* the number of calls
Held(this, last, count) == [this |-> this, last |-> last, count |-> count]
Call(method, before, now, now2, error) ==
  [method |-> method, before |-> before, now |-> now, now2 |-> now2, error |-> error]

\* new WheelResult(...) for a section of the wheel
Construct(section) ==
  /\ entity = <<>>
  /\ \E d \in drift :
       /\ entity' =
            <<Held(WheelResult(IdA, Str(S1), section,
                               DiscountPercentage(SectionDiscount(section)),
                               generateWheelAngle(section, 0, 0),
                               generateSpinDuration(0), Undefined, clock, clock + d),
                   <<>>, 0)>>
       /\ clock' = clock + d
  /\ UNCHANGED <<tzOffset, limits, pc, request, context, reads, wheelResult, outcome,
                 startTime, prior, seenAtLoad, returned, savedLog, hook, storedHistory,
                 validation, drift, calls, ticks, redeemLog, probe>>

MarkAsRedeemed ==
  /\ entity # <<>>
  /\ entity[1].count < MaxEntityCalls
  /\ \E d \in drift :
       LET out == markAsRedeemed(entity[1].this, clock, clock + d)
       IN /\ entity' =
               <<Held(out.this,
                      <<Call("markAsRedeemed", entity[1].this, clock, clock + d, out.error)>>,
                      entity[1].count + 1)>>
          /\ clock' = clock + d
  /\ UNCHANGED <<tzOffset, limits, pc, request, context, reads, wheelResult, outcome,
                 startTime, prior, seenAtLoad, returned, savedLog, hook, storedHistory,
                 validation, drift, calls, ticks, redeemLog, probe>>

ExtendExpiration(additionalHours) ==
  /\ entity # <<>>
  /\ entity[1].count < MaxEntityCalls
  /\ LET out == extendExpiration(entity[1].this, additionalHours)
     IN entity' =
          <<Held(out.this,
                 <<Call("extendExpiration", entity[1].this, clock, clock, out.error)>>,
                 entity[1].count + 1)>>
  /\ UNCHANGED <<serverVars, redeemLog, probe>>

\* time passes between two calls on the object
EntityTick ==
  /\ entity # <<>>
  /\ ticks < MaxTicks
  /\ ticks' = ticks + 1
  /\ \E d \in EntityTicks : clock' = clock + d
  /\ UNCHANGED <<tzOffset, limits, pc, request, context, reads, wheelResult, outcome,
                 startTime, prior, seenAtLoad, returned, savedLog, hook, storedHistory,
                 validation, drift, calls, redeemLog, entity, probe>>

\* a quiet server whose clock can move inside a call
InitEntity ==
  /\ InitCommon
  /\ drift = {0, 1}
  /\ clock = Base + 12 * HOUR_MS
  /\ tzOffset = 0
  /\ limits = defaultLimits
  /\ storedHistory = <<>>

NextEntity ==
  \/ \E section \in WheelSection : Construct(section)
  \/ MarkAsRedeemed
  \/ \E additionalHours \in ExtensionHours : ExtendExpiration(additionalHours)
  \/ EntityTick

\* one WheelResult and the calls made on it
SpecEntity == InitEntity /\ [][NextEntity]_vars

\* ------------------------------------------------------------------------
\* RandomGenerator.generateWheelAngle on its own
\* ------------------------------------------------------------------------
\* an angle: milli is the angle in units of 1 / RandomScale degree, below how
\* far under it the double returned lies, in units of 2^-47 degree
Angle(milli, below) == [milli |-> milli, below |-> below]

\* the draws of Math.random(): u / RandomScale for the offset and for the
\* rotations, and 1 - j / 2^53 for the offset
OffsetDraws == {0, 1, RandomScale \div 2, RandomScale - 1}
RotationDraws == {k * (RandomScale \div 4) - b : k \in 1..4, b \in {1, RandomScale \div 4}}
BelowOneDraws == 1..MaxBelowOne

GenerateWheelAngle(targetSection, uOffset, uRotations) ==
  /\ probe = <<>>
  /\ probe' = <<Probe("generateWheelAngle",
                      [targetSection |-> targetSection, offset |-> uOffset,
                       belowOne |-> 0, rotations |-> uRotations],
                      Angle(generateWheelAngle(targetSection, uOffset, uRotations), 0))>>
  /\ UNCHANGED <<serverVars, redeemLog, entity>>

GenerateWheelAngleNearOne(targetSection, j, uRotations) ==
  /\ probe = <<>>
  /\ LET a == generateWheelAngleNearOne(targetSection, j, uRotations)
     IN probe' = <<Probe("generateWheelAngle",
                         [targetSection |-> targetSection, offset |-> RandomScale,
                          belowOne |-> j, rotations |-> uRotations],
                         Angle(Degrees(a.degrees), a.below))>>
  /\ UNCHANGED <<serverVars, redeemLog, entity>>

NextAngle ==
  \/ \E targetSection \in WheelSection, uOffset \in OffsetDraws, uRotations \in RotationDraws :
       GenerateWheelAngle(targetSection, uOffset, uRotations)
  \/ \E targetSection \in WheelSection, j \in BelowOneDraws, uRotations \in RotationDraws :
       GenerateWheelAngleNearOne(targetSection, j, uRotations)

\* one call of generateWheelAngle for a section and two draws
SpecAngle == InitDomain /\ [][NextAngle]_vars

\* ------------------------------------------------------------------------
\* Calls on values: getWheelConfig, new DiscountPercentage
\* ------------------------------------------------------------------------
\* getWheelConfig(), with the limits getSpinLimits() returns and the value
\* isWheelEnabled() resolves to; its sections are a literal of its own
getWheelConfig(spinLimits, isEnabled) ==
  LET row(section, probability, discountPercentage) ==
        [section |-> section, probability |-> probability,
         discountPercentage |-> discountPercentage]
  IN [isEnabled |-> isEnabled,
      maxSpinsPerDay |-> spinLimits.maxSpinsPerDay,
      maxSpinsPerSession |-> spinLimits.maxSpinsPerSession,
      cooldownBetweenSpins |-> spinLimits.cooldownBetweenSpins,
      sections |-> << row("DISCOUNT_5", 25, 5), row("DISCOUNT_10", 20, 10),
                      row("DISCOUNT_15", 15, 15), row("DISCOUNT_20", 15, 20),
                      row("DISCOUNT_25", 10, 25), row("DISCOUNT_30", 8, 30),
                      row("DISCOUNT_50", 2, 50), row("TRY_AGAIN", 5, 0) >>]

GetWheelConfig(spinLimits, isEnabled) ==
  /\ probe = <<>>
  /\ probe' = <<Probe("getWheelConfig", spinLimits, getWheelConfig(spinLimits, isEnabled))>>
  /\ UNCHANGED <<serverVars, redeemLog, entity>>

\* a JavaScript number passed to the constructor: NaN, an infinity, or a
\* finite number counted in thousandths
Num(thousandths) == [kind |-> "finite", thousandths |-> thousandths]
NaN == [kind |-> "NaN", thousandths |-> 0]
Infinity(sign) == [kind |-> "Infinity", thousandths |-> sign]
PercentageInputs ==
  {Num(n) : n \in {0 - 1000, 0 - 1, 0, 4, 5, 5000, 33335, 99999,
                   MAX_DISCOUNT * 1000, MAX_DISCOUNT * 1000 + 1, 101000}}
    \cup {NaN, Infinity(1), Infinity(0 - 1)}

\* validatePercentage that refuses the upper limit itself
validatePercentage_MaxExclusive(percentage) ==
  IF percentage.kind = "NaN" THEN <<"El porcentaje de descuento no puede ser NaN">>
  ELSE IF percentage.kind = "Infinity"
  THEN <<"El porcentaje de descuento debe ser un número finito">>
  ELSE IF percentage.thousandths < MIN_DISCOUNT * 1000
  THEN <<"El porcentaje de descuento no puede ser menor a 0%">>
  ELSE IF percentage.thousandths >= MAX_DISCOUNT * 1000
  THEN <<"El porcentaje de descuento no puede ser mayor a 100%">>
  ELSE <<>>

\* validatePercentage(percentage): the message of the Error it throws, or
\* <<>> when it returns
validatePercentage(percentage) ==
  IF percentage.kind = "NaN" THEN <<"El porcentaje de descuento no puede ser NaN">>
  ELSE IF percentage.kind = "Infinity"
  THEN <<"El porcentaje de descuento debe ser un número finito">>
  ELSE IF percentage.thousandths < MIN_DISCOUNT * 1000
  THEN <<"El porcentaje de descuento no puede ser menor a 0%">>
  ELSE IF percentage.thousandths > MAX_DISCOUNT * 1000
  THEN <<"El porcentaje de descuento no puede ser mayor a 100%">>
  ELSE <<>>

\* new DiscountPercentage(percentage): the object, whose _value is
\* Math.round(percentage * 100) / 100 (kept in hundredths), or the Error
newDiscountPercentage(percentage) ==
  IF validatePercentage(percentage) # <<>>
  THEN Outcome(<<>>, validatePercentage(percentage))
  ELSE Outcome(<<[hundredths |-> (percentage.thousandths + 5) \div 10]>>, <<>>)

NewDiscountPercentage(percentage) ==
  /\ probe = <<>>
  /\ probe' = <<Probe("DiscountPercentage", percentage, newDiscountPercentage(percentage))>>
  /\ UNCHANGED <<serverVars, redeemLog, entity>>

\* an id of generateId(16) that starts with a digit
IdC == <<"7", "k", "Q", "2", "r", "T", "0", "b", "M", "4", "u", "C", "9", "e", "L", "1">>

\* getDiscountCode() on the WheelResult of a spin that landed on the section
GetDiscountCode(section, id) ==
  /\ probe = <<>>
  /\ LET result == WheelResult(id, Str(S1), section,
                               DiscountPercentage(SectionDiscount(section)),
                               generateWheelAngle(section, 0, 0),
                               generateSpinDuration(0), Undefined, clock, clock)
     IN probe' = <<Probe("getDiscountCode", result, getDiscountCode(result))>>
  /\ UNCHANGED <<serverVars, redeemLog, entity>>

\* resetSpinLimits(sessionId, userId, adminKey), with envKey the value of
\* process.env.ADMIN_RESET_KEY (Undefined when the variable is not set)
resetSpinLimits(sessionId, userId, adminKey, envKey) ==
  IF adminKey # envKey THEN [success |-> FALSE] ELSE [success |-> TRUE]

\* the keys a caller can pass and the environment can hold
AdminKeys == {Undefined, Str(<<>>), Str(<<"k", "1">>), Str(<<"k", "2">>)}

ResetSpinLimits(adminKey, envKey) ==
  /\ probe = <<>>
  /\ probe' = <<Probe("resetSpinLimits", [adminKey |-> adminKey, envKey |-> envKey],
                      resetSpinLimits(Str(S1), Undefined, adminKey, envKey))>>
  /\ UNCHANGED <<serverVars, redeemLog, entity>>

\* date.toISOString(): the date and the time of day, in UTC; and
\* new Date(isoString)
toISOString(t) == [date |-> t \div DAY_MS, time |-> t % DAY_MS]
parseDate(iso) == iso.date * DAY_MS + iso.time

\* toJSON(), with now the instant isExpired() reads; redeemedAt is
\* undefined (<<>>) when the record has none
toJSON(result, now) ==
  [id |-> result.id, sessionId |-> result.sessionId, section |-> result.section,
   discountPercentage |-> result.discountPercentage.value,
   spinAngle |-> result.spinAngle, spinDuration |-> result.spinDuration,
   timestamp |-> toISOString(result.timestamp), userIp |-> result.userIp,
   isRedeemed |-> result.isRedeemed,
   redeemedAt |-> IF result.redeemedAt = NoDate THEN <<>>
                  ELSE <<toISOString(result.redeemedAt)>>,
   expiresAt |-> toISOString(result.expiresAt),
   isWinning |-> isWinningResult(result),
   isExpired |-> isExpired(result, now),
   discountCode |-> IF isWinningResult(result) THEN Str(getDiscountCode(result).this)
                    ELSE Undefined]

\* WheelResult.fromJSON(data), with now and now2 the instants the
\* constructor reads
fromJSON(data, now, now2) ==
  LET result == WheelResult(data.id, data.sessionId, data.section,
                            DiscountPercentage(data.discountPercentage),
                            data.spinAngle, data.spinDuration, data.userIp, now, now2)
      redeemed == IF data.isRedeemed
                  THEN [result EXCEPT !.isRedeemed = TRUE,
                                      !.redeemedAt = IF data.redeemedAt # <<>>
                                                     THEN parseDate(data.redeemedAt[1])
                                                     ELSE @]
                  ELSE result
  IN [redeemed EXCEPT !.expiresAt = parseDate(data.expiresAt)]

\* a record is made (and redeemed or not), stored with toJSON and loaded
\* with fromJSON after a delay: at once, 1 ms later or a day later
StoreAndLoad(section, id, redeem, delay) ==
  /\ probe = <<>>
  /\ LET made == WheelResult(id, Str(S1), section,
                             DiscountPercentage(SectionDiscount(section)),
                             generateWheelAngle(section, 0, 0),
                             generateSpinDuration(0), Undefined, clock, clock)
         stored == IF redeem THEN markAsRedeemed(made, clock, clock).this ELSE made
     IN probe' = <<Probe("fromJSON", [record |-> stored, delay |-> delay],
                         fromJSON(toJSON(stored, clock), clock + delay, clock + delay))>>
  /\ UNCHANGED <<serverVars, redeemLog, entity>>

\* generateWheelSection() when Math.random() returns u / RandomScale
GenerateWheelSection(u) ==
  /\ probe = <<>>
  /\ probe' = <<Probe("generateWheelSection", u, generateWheelSection(u))>>
  /\ UNCHANGED <<serverVars, redeemLog, entity>>

NextDomain ==
  \/ \E section \in WheelSection, id \in Ids, redeem \in BOOLEAN, delay \in {0, 1, DAY_MS} :
       StoreAndLoad(section, id, redeem, delay)
  \/ \E adminKey \in AdminKeys, envKey \in AdminKeys : ResetSpinLimits(adminKey, envKey)
  \/ \E section \in WheelSection, id \in Ids \cup {IdC} : GetDiscountCode(section, id)
  \/ \E u \in 0..(RandomScale - 1) : GenerateWheelSection(u)
  \/ \E spinLimits \in LimitChoices, isEnabled \in BOOLEAN :
       GetWheelConfig(spinLimits, isEnabled)
  \/ \E percentage \in PercentageInputs : NewDiscountPercentage(percentage)

\* one call on a value of the domain
SpecDomain == InitDomain /\ [][NextDomain]_vars

\* ------------------------------------------------------------------------
\* Properties
\* ------------------------------------------------------------------------
\* the call has been granted a spin: its WheelResult exists
Granted(r) == pc[r] \in {"processed", "saved", "done"}

\* the sequence of instants is spaced by at least the cooldown
SpacedByCooldown(instants) ==
  \A i \in 1..(Len(instants) - 1) :
    instants[i + 1] - instants[i] >= limits.cooldownBetweenSpins

\* C1: with the default limits (cooldown 5 min, daily cap 10, session cap 3),
\* a spin() that a session issues less than 5 minutes after its first
\* successful spin() is not granted: it yields no award.
C1_SecondSpinInCooldownRejected ==
  \A r \in Req :
    ( /\ limits = defaultLimits
      /\ Len(prior[r]) = 1
      /\ startTime[r] - prior[r][1] < limits.cooldownBetweenSpins )
    => ~Granted(r)

\* C2: with session cap 3, a spin() that a session issues after three
\* successful spins, each at least the cooldown after the one before, is not
\* granted, whatever the cooldown and the daily count are then.
C2_FourthSpinRejected ==
  \A r \in Req :
    ( /\ limits.maxSpinsPerSession = DEFAULT_MAX_SPINS_PER_SESSION
      /\ Len(prior[r]) = DEFAULT_MAX_SPINS_PER_SESSION
      /\ SpacedByCooldown(prior[r]) )
    => ~Granted(r)

\* C3: two spin() calls of one session that are in flight together never
\* both succeed on the same loaded history: the load, the check and the
\* append of one of them come before the load of the other.
C3_SameSessionSpinsSerialized ==
  \A r1 \in Req, r2 \in Req :
    ( /\ r1 # r2
      /\ request[r1].sessionId = request[r2].sessionId
      /\ pc[r1] = "done"
      /\ pc[r2] = "done" )
    => seenAtLoad[r1] # seenAtLoad[r2]

\* C4: the history a call loads holds every spin of its session that was
\* saved before the load, one record for each.
C4_LoadedHistoryHoldsSavedSpins ==
  \A r \in Req :
    pc[r] \in {"loaded", "context", "processed", "saved", "done"}
    => Len(context[r][1].userHistory.spinsInSession) = seenAtLoad[r]

\* C5: a spin() that fails, on its request or because the caller is not
\* eligible, has constructed no WheelResult and has saved nothing.
C5_FailedSpinLeavesNoRecord ==
  pc["r1"] = "failed" => wheelResult["r1"] = <<>> /\ savedLog = <<>>

\* C5 witness: a spin rejected by the limiter on a non-empty history
C5_Witness ==
  /\ pc["r1"] = "failed"
  /\ storedHistory # <<>>
  /\ outcome["r1"][1].error[1].type = "RATE_LIMIT_EXCEEDED"

\* C6: the result the useWheel hook hands to the page is a winning one only
\* when the server granted the spin and its reply reached the client: a
\* rejected or failed spin request delivers no award.
C6_HookAwardOnlyWhenGranted ==
  hook.lastResult # <<>>
  => ( hook.lastResult[1].result.isWinning
       => hook.lastResult[1].granted /\ hook.lastResult[1].arrived )

\* the context of the harness call, once createProcessingContext has built it
HasContext == reads["r1"].check # NoDate
Ctx == context["r1"][1]

\* the time since the last spin of the loaded history, at an instant
SinceLastSpin(now) == now - Ctx.userHistory.lastSpinAt

\* C7: when the last spin of the history is t ms old with t < the cooldown,
\* the caller is not eligible and the cooldown remaining is the cooldown
\* minus t; when t >= the cooldown, the cooldown does not block.  In the use
\* case (checkCanSpin, calculateCooldownRemaining) and in validateSpinLimits,
\* each with t taken at the instant it reads the clock.
C7_CooldownEnforced ==
  /\ (HasContext /\ Ctx.userHistory.lastSpinAt # NoDate) =>
       LET cooldown == limits.cooldownBetweenSpins
           t1 == SinceLastSpin(reads["r1"].check)
           t2 == SinceLastSpin(reads["r1"].cooldown)
       IN /\ t1 < cooldown => ~Ctx.canSpin
          /\ t2 < cooldown => Ctx.cooldownRemaining = cooldown - t2
          /\ t2 >= cooldown => Ctx.cooldownRemaining = 0
          /\ ( /\ t1 >= cooldown
               /\ Len(Ctx.userHistory.spinsInSession) < limits.maxSpinsPerSession
               /\ SpinsDatedOn(Ctx.userHistory.spinsToday, reads["r1"].check)
                    < limits.maxSpinsPerDay )
             => Ctx.canSpin
  /\ (validation # <<>> /\ storedHistory # <<>>) =>
       LET cooldown == limits.cooldownBetweenSpins
           v == validation[1]
           t == v.now - storedHistory[1].timestamp
       IN /\ t < cooldown =>
               ~v.result.canSpin /\ v.result.cooldownRemaining = cooldown - t
          /\ t >= cooldown => v.result.cooldownRemaining = Absent

\* C7 witness: a last spin one millisecond short of the cooldown, refused by
\* the use case and by the validator
C7_Witness ==
  /\ HasContext
  /\ ~Ctx.canSpin
  /\ Ctx.cooldownRemaining = 1
  /\ validation # <<>>
  /\ validation[1].result.cooldownRemaining = 1

\* C8: when exactly maxSpinsPerDay entries of the history are dated on
\* today's UTC date and the cooldown has elapsed, the caller is not eligible
\* and the next allowed time reported is the next UTC midnight.
C8_DailyCapResetsAtUtcMidnight ==
  /\ ( /\ HasContext
       /\ SpinsDatedOn(Ctx.userHistory.spinsToday, reads["r1"].check)
            = limits.maxSpinsPerDay )
     => ~Ctx.canSpin
  /\ ( /\ validation # <<>>
       /\ SpinsDatedOn(storedHistory, validation[1].now2) = limits.maxSpinsPerDay
       /\ \/ storedHistory = <<>>
          \/ validation[1].now - storedHistory[1].timestamp
               >= limits.cooldownBetweenSpins )
     => /\ ~validation[1].result.canSpin
        /\ validation[1].result.nextAllowedSpin = NextUtcMidnight(validation[1].now)

\* C9: when the session has exactly maxSpinsPerSession entries the caller
\* is not eligible, also when the daily cap is not reached and the cooldown
\* has elapsed; the rejection is the session one and carries no next time.
C9_SessionCapEnforced ==
  /\ ( /\ HasContext
       /\ Len(Ctx.userHistory.spinsInSession) = limits.maxSpinsPerSession )
     => /\ ~Ctx.canSpin
        /\ ~Granted("r1")
        /\ ( /\ pc["r1"] = "failed"
             /\ \/ Ctx.userHistory.lastSpinAt = NoDate
                \/ SinceLastSpin(reads["r1"].check) >= limits.cooldownBetweenSpins
             /\ SpinsDatedOn(Ctx.userHistory.spinsToday, reads["r1"].check)
                  < limits.maxSpinsPerDay )
           => outcome["r1"][1].error[1]
                = rateLimitExceeded("spin", limits.maxSpinsPerSession, Window(0, "sesion"))
  /\ ( /\ validation # <<>>
       /\ Len(storedHistory) = limits.maxSpinsPerSession
       /\ validation[1].now - storedHistory[1].timestamp >= limits.cooldownBetweenSpins
       /\ SpinsDatedOn(storedHistory, validation[1].now2) < limits.maxSpinsPerDay )
     => /\ ~validation[1].result.canSpin
        /\ validation[1].result.errors = <<"Ha alcanzado el limite de giros por sesion">>
        /\ validation[1].result.nextAllowedSpin = NoDate
        /\ validation[1].result.cooldownRemaining = Absent

\* C9 witness: the session cap alone refuses the caller, in the use case and
\* in the validator
C9_Witness ==
  /\ pc["r1"] = "failed"
  /\ HasContext
  /\ outcome["r1"][1].error[1].window.unit = "sesion"
  /\ Ctx.cooldownRemaining = 0
  /\ SpinsDatedOn(Ctx.userHistory.spinsToday, reads["r1"].check) < limits.maxSpinsPerDay
  /\ validation # <<>>
  /\ validation[1].result.errors = <<"Ha alcanzado el limite de giros por sesion">>

\* C10: the reason of a rejection is that of the first failing check in the
\* order cooldown, daily cap, session cap, in validateCanSpin and in
\* validateSpinLimits, each check taken at the instant it reads the clock.
C10_ReasonPrecedence ==
  /\ (pc["r1"] = "failed" /\ HasContext) =>
       LET e == outcome["r1"][1].error[1]
           cooldownFails == /\ Ctx.userHistory.lastSpinAt # NoDate
                            /\ SinceLastSpin(reads["r1"].cooldown)
                                 < limits.cooldownBetweenSpins
           dailyFails == SpinsDatedOn(Ctx.userHistory.spinsToday, reads["r1"].validate)
                           >= limits.maxSpinsPerDay
           sessionFails == Len(Ctx.userHistory.spinsInSession)
                             >= limits.maxSpinsPerSession
       IN /\ cooldownFails => e.window.unit = "minutos"
          /\ (~cooldownFails /\ dailyFails) => e.window.unit = "dia"
          /\ (~cooldownFails /\ ~dailyFails /\ sessionFails) => e.window.unit = "sesion"
  /\ validation # <<>> =>
       LET v == validation[1]
           cooldownFails == /\ storedHistory # <<>>
                            /\ v.now - storedHistory[1].timestamp
                                 < limits.cooldownBetweenSpins
           dailyFails == SpinsDatedOn(storedHistory, v.now2) >= limits.maxSpinsPerDay
           sessionFails == Len(storedHistory) >= limits.maxSpinsPerSession
       IN /\ cooldownFails =>
               v.result.errors = <<"Debe esperar antes de girar nuevamente">>
          /\ (~cooldownFails /\ dailyFails) =>
               v.result.errors = <<"Ha alcanzado el limite diario de giros">>
          /\ (~cooldownFails /\ ~dailyFails /\ sessionFails) =>
               v.result.errors = <<"Ha alcanzado el limite de giros por sesion">>

\* C10 witness: the daily cap and the session cap fail together and the
\* daily cap is the reason given, in the use case and in the validator
C10_Witness ==
  /\ pc["r1"] = "failed"
  /\ HasContext
  /\ outcome["r1"][1].error[1].window.unit = "dia"
  /\ Len(Ctx.userHistory.spinsInSession) >= limits.maxSpinsPerSession
  /\ validation # <<>>
  /\ validation[1].result.errors = <<"Ha alcanzado el limite diario de giros">>
  /\ Len(storedHistory) >= limits.maxSpinsPerSession

\* the three checks of validateSpinLimits, each at the instant it reads
ValidatorChecksPass ==
  /\ \/ storedHistory = <<>>
     \/ validation[1].now - storedHistory[1].timestamp >= limits.cooldownBetweenSpins
  /\ SpinsDatedOn(storedHistory, validation[1].now2) < limits.maxSpinsPerDay
  /\ Len(storedHistory) < limits.maxSpinsPerSession

\* C11 as stated: when all three checks pass the result is eligible and the
\* spins remaining are maxSpinsPerDay minus the spins dated today.
C11_RemainingIsDailyCapMinusToday ==
  (validation # <<>> /\ ValidatorChecksPass) =>
    /\ validation[1].result.canSpin
    /\ validation[1].result.spinsRemaining
         = limits.maxSpinsPerDay - SpinsDatedOn(storedHistory, validation[1].now2)

\* C11 amended: when all three checks pass the result is eligible and the
\* spins remaining are the smaller of maxSpinsPerDay minus the spins dated
\* today and maxSpinsPerSession minus the spins of the session.
C11_RemainingIsTighterCap ==
  (validation # <<>> /\ ValidatorChecksPass) =>
    /\ validation[1].result.canSpin
    /\ validation[1].result.errors = <<>>
    /\ validation[1].result.spinsRemaining
         = Min(limits.maxSpinsPerDay - SpinsDatedOn(storedHistory, validation[1].now2),
               limits.maxSpinsPerSession - Len(storedHistory))

\* C11 witness: an eligible caller whose session cap is the tighter one
C11_Witness ==
  /\ validation # <<>>
  /\ ValidatorChecksPass
  /\ storedHistory # <<>>
  /\ validation[1].result.canSpin
  /\ validation[1].result.spinsRemaining
       < limits.maxSpinsPerDay - SpinsDatedOn(storedHistory, validation[1].now2)

\* C12: the first spin of a session with an empty history and the default
\* limits succeeds and returns canSpinAgain = true and spinsRemainingToday
\* = 9; every successful spin returns spinsRemainingToday =
\* max(0, maxSpinsPerDay - (spinsToday + 1)), spinsToday being the number
\* of entries of the loaded history's spinsToday list.
C12_SpinsRemainingAfterSpin ==
  /\ (storedHistory = <<>> /\ limits = defaultLimits /\ pc["r1"] = "failed")
       => validateRequest(request["r1"]) # <<>>
  /\ (storedHistory = <<>> /\ limits = defaultLimits /\ pc["r1"] = "done")
       => /\ outcome["r1"][1].ok
          /\ outcome["r1"][1].value[1].canSpinAgain
          /\ outcome["r1"][1].value[1].spinsRemainingToday = DEFAULT_MAX_SPINS_PER_DAY - 1
  /\ pc["r1"] = "done"
       => outcome["r1"][1].value[1].spinsRemainingToday
            = Max(0, limits.maxSpinsPerDay - (Len(Ctx.userHistory.spinsToday) + 1))

\* C12 witness: the first spin of a session under the default limits has
\* returned with 9 spins remaining today
C12_Witness ==
  /\ pc["r1"] = "done"
  /\ storedHistory = <<>>
  /\ limits = defaultLimits
  /\ outcome["r1"][1].value[1].canSpinAgain
  /\ outcome["r1"][1].value[1].spinsRemainingToday = 9

\* a redemption that succeeded: the code was accepted as not yet redeemed
RedeemSucceeded(e) ==
  e.result.isValid /\ ~e.result.discount[1].alreadyRedeemed

\* C13: of the redemptions of one valid code at most one succeeds: the
\* first succeeds and every later one fails as already redeemed.
C13_CodeRedeemedAtMostOnce ==
  \A i, j \in DOMAIN redeemLog :
    (i < j /\ redeemLog[i].code = redeemLog[j].code /\ RedeemSucceeded(redeemLog[i]))
      => ~RedeemSucceeded(redeemLog[j])

\* a dotted quad of decimal numbers 0..255 of one to three digits each
IsOctet(part) ==
  /\ Len(part) \in 1..3
  /\ \A i \in DOMAIN part : part[i] \in Digit
  /\ parseInt(part) <= 255

IsIPv4(s) ==
  \E a, b, c \in DOMAIN s :
    /\ a < b /\ b < c
    /\ {i \in DOMAIN s : s[i] = "."} = {a, b, c}
    /\ IsOctet(SubSeq(s, 1, a - 1))
    /\ IsOctet(SubSeq(s, a + 1, b - 1))
    /\ IsOctet(SubSeq(s, b + 1, c - 1))
    /\ IsOctet(SubSeq(s, c + 1, Len(s)))

ValidationErrorTypes == {"REQUIRED_FIELD", "INVALID_LENGTH", "INVALID_FORMAT"}

\* sessionId is missing, empty, blank or longer than 100 characters
SessionIdMalformed(req) ==
  \/ ~req.sessionId.def
  \/ req.sessionId.s = <<>>
  \/ \A i \in DOMAIN req.sessionId.s : req.sessionId.s[i] \in Whitespace
  \/ Len(req.sessionId.s) > 100

\* the call of the harness failed on the validation of its request
FailedOnValidation ==
  /\ pc["r1"] = "failed"
  /\ outcome["r1"][1].error[1].type \in ValidationErrorTypes

\* execute() rejects exactly the malformed requests, and before it loads the
\* history or draws an outcome
RejectsExactly(malformed) ==
  pc["r1"] # "idle" =>
    /\ malformed =>
         /\ FailedOnValidation
         /\ context["r1"] = <<>>
         /\ reads["r1"] = NoReads
         /\ wheelResult["r1"] = <<>>
    /\ ~malformed => ~FailedOnValidation

RefusedAsIneligible ==
  /\ pc["r1"] = "failed"
  /\ HasContext
  /\ ~Ctx.canSpin

\* C15: every refusal of an ineligible caller carries the rate-limit type
\* and status (RATE_LIMIT_EXCEEDED, 429) and no rejection of a malformed
\* request carries either.
C15_RateLimitDistinctFromValidation ==
  /\ RefusedAsIneligible =>
       /\ outcome["r1"][1].error[1].type = "RATE_LIMIT_EXCEEDED"
       /\ outcome["r1"][1].error[1].statusCode = 429
  /\ (pc["r1"] = "failed" /\ ~HasContext) =>
       /\ outcome["r1"][1].error[1].type # "RATE_LIMIT_EXCEEDED"
       /\ outcome["r1"][1].error[1].statusCode # 429

\* the fields of a thrown exception that tell an instant or a duration
CarriesCooldown(e) == e.window.unit = "minutos" /\ e.window.n > 0
CarriesResetTime(e) ==
  \/ "nextAllowedSpin" \in DOMAIN e
  \/ "nextSpinAllowedAt" \in DOMAIN e
  \/ "retryAfter" \in DOMAIN e

\* C16: a cooldown rejection carries the remaining cooldown and a daily-cap
\* rejection carries the time of the reset, from execute() and from
\* validateSpinLimits.
C16_RejectionsTellWhenToRetry ==
  /\ (RefusedAsIneligible /\ Ctx.cooldownRemaining > 0) =>
       /\ CarriesCooldown(outcome["r1"][1].error[1])
       /\ outcome["r1"][1].error[1].window.n * MINUTE_MS >= Ctx.cooldownRemaining
  /\ (RefusedAsIneligible /\ outcome["r1"][1].error[1].window.unit = "dia") =>
       CarriesResetTime(outcome["r1"][1].error[1])
  /\ (validation # <<>>
      /\ validation[1].result.errors = <<"Debe esperar antes de girar nuevamente">>) =>
       validation[1].result.cooldownRemaining > 0
  /\ (validation # <<>>
      /\ validation[1].result.errors = <<"Ha alcanzado el limite diario de giros">>) =>
       validation[1].result.nextAllowedSpin > validation[1].now

\* the call failed on a read or a write of the store
StorageFailed(r) ==
  /\ pc[r] = "failed"
  /\ outcome[r][1].error[1] = StorageError

\* C17: a failure of the store during the load or the append reaches the
\* caller as a failure that is not a rate-limit refusal, with no result
\* returned and none saved, and the client that receives this failure
\* holds no award.  (With the empty history and the request of the hook the
\* store is the only thing that makes execute() fail here.)
C17_StorageFailureNeverAwards ==
  /\ \A r \in Req :
       StorageFailed(r) =>
         /\ ~outcome[r][1].ok
         /\ outcome[r][1].value = <<>>
         /\ outcome[r][1].error[1].type \notin {"RATE_LIMIT_EXCEEDED", "BUSINESS_RULE_VIOLATION"}
         /\ outcome[r][1].error[1].statusCode # 429
         /\ Len(savedLog) = Len(returned)
  /\ ( /\ hook.lastResult # <<>>
       /\ hook.lastResult[1].arrived
       /\ ~hook.lastResult[1].granted )
     => ~hook.lastResult[1].result.isWinning

\* the last call on the object was markAsRedeemed
LastWasMarkAsRedeemed ==
  /\ entity # <<>>
  /\ entity[1].last # <<>>
  /\ entity[1].last[1].method = "markAsRedeemed"

\* C18: markAsRedeemed fails when the section is TRY_AGAIN, when the record
\* is already redeemed and when it is expired (the instant is past
\* expiresAt), leaving isRedeemed, redeemedAt and expiresAt as they were;
\* otherwise it sets isRedeemed and records redeemedAt.
C18_MarkAsRedeemedGuards ==
  LastWasMarkAsRedeemed =>
    LET call == entity[1].last[1]
        before == call.before
        after == entity[1].this
    IN IF \/ before.section = "TRY_AGAIN"
          \/ before.isRedeemed
          \/ call.now > before.expiresAt
       THEN /\ call.error # <<>>
            /\ after.isRedeemed = before.isRedeemed
            /\ after.redeemedAt = before.redeemedAt
            /\ after.expiresAt = before.expiresAt
       ELSE /\ call.error = <<>>
            /\ after.isRedeemed
            /\ after.redeemedAt = call.now2
            /\ after.expiresAt = before.expiresAt

\* C18 witness: markAsRedeemed was refused on an expired prize that was not
\* redeemed
C18_Witness ==
  /\ LastWasMarkAsRedeemed
  /\ entity[1].last[1].error = <<"Este descuento ha expirado">>
  /\ entity[1].this.section # "TRY_AGAIN"
  /\ ~entity[1].this.isRedeemed
  /\ entity[1].this.redeemedAt = NoDate

\* INTEL, then at least one digit, then a non-empty run of capitals and
\* digits up to the end
WellFormedCode(code) ==
  /\ Len(code) >= 7
  /\ SubSeq(code, 1, 5) = INTEL
  /\ code[6] \in Digit
  /\ \A i \in 7..Len(code) : code[i] \in UpperAlnum

\* the digits that follow the prefix, up to the first character that is not
\* a digit
DigitsAfterPrefix(code) ==
  LET n == CHOOSE m \in 0..(Len(code) - 5) :
             /\ \A i \in 6..(5 + m) : code[i] \in Digit
             /\ 5 + m = Len(code) \/ code[6 + m] \notin Digit
  IN SubSeq(code, 6, 5 + n)

\* C19: a code is valid exactly when it is INTEL, one or more digits and a
\* non-empty suffix of capitals and digits; the percentage of a valid code
\* is the number written by the digits that follow the prefix; an invalid
\* code yields no percentage.  For redeemWheelDiscount and for
\* validateWheelDiscount of the discount form.
C19_CodeValidity ==
  /\ \A i \in DOMAIN redeemLog :
       LET e == redeemLog[i]
       IN /\ e.result.isValid <=> WellFormedCode(e.code)
          /\ e.result.isValid =>
               e.result.discount[1].percentage = parseInt(DigitsAfterPrefix(e.code))
          /\ ~e.result.isValid => e.result.discount = <<>>
  /\ (probe # <<>> /\ probe[1].fn = "validateWheelDiscount") =>
       /\ probe[1].result # <<>> <=> WellFormedCode(probe[1].input)
       /\ probe[1].result # <<>> =>
            probe[1].result[1].percentage = parseInt(DigitsAfterPrefix(probe[1].input))

\* the angle is at least lo degrees, and less than hi degrees
AtLeast(a, lo) == a.milli > Degrees(lo) \/ (a.milli = Degrees(lo) /\ a.below = 0)
LessThan(a, hi) == a.milli < Degrees(hi) \/ (a.milli = Degrees(hi) /\ a.below > 0)

\* the angle modulo 360 lies in the slice of the section: from the index of
\* the section times the slice width, up to but not including the next slice
InSliceOf(section, a) ==
  LET width == Degrees(360) \div Len(WHEEL_SECTIONS_CONFIG)
      from == (SectionIndex(section) - 1) * width
      m == a.milli % Degrees(360)
      mUnder == ((a.milli - 1) % Degrees(360)) + 1
  IN IF a.below = 0 THEN from <= m /\ m < from + width
     ELSE from < mUnder /\ mUnder <= from + width

\* C20: for every section, every offset draw and every number of extra
\* rotations 3..6, the angle generateWheelAngle returns is in [1080, 2520)
\* and, modulo 360, inside the slice of the section.
C20_AngleInRangeAndSlice ==
  (probe # <<>> /\ probe[1].fn = "generateWheelAngle") =>
    /\ AtLeast(probe[1].result, 1080)
    /\ LessThan(probe[1].result, 2520)
    /\ InSliceOf(probe[1].input.targetSection, probe[1].result)

\* C21: the outcome table has eight rows, every probability is positive and
\* the probabilities add up to exactly 100; the table getWheelConfig returns
\* is the same in all three respects.
C21_ProbabilitiesSumTo100 ==
  LET odds == [i \in DOMAIN WHEEL_SECTIONS_CONFIG |-> WHEEL_SECTIONS_CONFIG[i].probability]
  IN /\ Len(odds) = 8
     /\ \A i \in DOMAIN odds : odds[i] > 0
     /\ SumTo(odds, Len(odds)) = 100
     /\ (probe # <<>> /\ probe[1].fn = "getWheelConfig") =>
          LET sections == probe[1].result.sections
              shown == [i \in DOMAIN sections |-> sections[i].probability]
          IN /\ Len(shown) = 8
             /\ \A i \in DOMAIN shown : shown[i] > 0
             /\ SumTo(shown, Len(shown)) = 100
             /\ \A i \in DOMAIN shown :
                  /\ sections[i].section = WHEEL_SECTIONS_CONFIG[i].section
                  /\ shown[i] = odds[i]

C21_Witness ==
  /\ probe # <<>>
  /\ probe[1].fn = "getWheelConfig"
  /\ Len(probe[1].result.sections) = Len(WHEEL_SECTIONS_CONFIG)

\* C22: new DiscountPercentage(v) throws for NaN, for an infinity, for
\* v < 0 and for v > 100, and constructs the object for every v in [0, 100],
\* 0 and 100 included.
C22_DiscountPercentageRange ==
  (probe # <<>> /\ probe[1].fn = "DiscountPercentage") =>
    LET v == probe[1].input
        inRange == v.kind = "finite" /\ 0 <= v.thousandths /\ v.thousandths <= 100 * 1000
    IN IF inRange
       THEN probe[1].result.error = <<>> /\ probe[1].result.this # <<>>
       ELSE probe[1].result.error # <<>> /\ probe[1].result.this = <<>>

C22_Witness ==
  /\ probe # <<>>
  /\ probe[1].fn = "DiscountPercentage"
  /\ probe[1].input = Num(100 * 1000)
  /\ probe[1].result.error = <<>>

\* C23: what a successful spin returns equals the three limiter checks
\* re-run on the history with the new spin included: canSpinAgain is true
\* exactly when neither cap is reached with the new spin counted, the
\* nextSpinAllowedAt it carries is an instant at which the checks pass (and
\* it carries one when canSpinAgain), and spinsRemainingToday is the daily
\* cap minus the spins dated today, the new one among them.
C23_NextSpinInfoMatchesRecheck ==
  pc["r1"] = "done" =>
    LET out == outcome["r1"][1].value[1]
        spin == [timestamp |-> wheelResult["r1"][1].timestamp]
        after == UserSpinHistory(Ctx.userHistory.sessionId,
                                 Append(Ctx.userHistory.spinsToday, spin),
                                 Append(Ctx.userHistory.spinsInSession, spin),
                                 spin.timestamp)
        datedToday == SpinsDatedOn(after.spinsToday, spin.timestamp)
    IN /\ out.canSpinAgain
            = ( /\ Len(after.spinsInSession) < limits.maxSpinsPerSession
                /\ datedToday < limits.maxSpinsPerDay )
       /\ out.canSpinAgain => out.nextSpinAllowedAt # NoDate
       /\ out.nextSpinAllowedAt # NoDate
            => checkCanSpin(after, limits, out.nextSpinAllowedAt)
       /\ out.spinsRemainingToday = Max(0, limits.maxSpinsPerDay - datedToday)

\* the section generateWheelSection returns for each draw of
\* 0 .. RandomScale - 1, and the draws for which it returns the section
DrawTable == [v \in 0..(RandomScale - 1) |-> generateWheelSection(v)]
DrawsOf(section) == {v \in 0..(RandomScale - 1) : DrawTable[v] = section}

C25_DiscountCodeRoundTrip ==
  (probe # <<>> /\ probe[1].fn = "getDiscountCode" /\ isWinningResult(probe[1].input)) =>
    LET code == probe[1].result.this
        redeemed == redeemWheelDiscount(code, "ana@example.com", clock)
    IN /\ probe[1].result.error = <<>>
       /\ codeRegexTest(code)
       /\ redeemed.isValid
       /\ redeemed.discount[1].percentage = probe[1].input.discountPercentage.value

\* C26: on a WheelResult made by the constructor, over any sequence of
\* markAsRedeemed and extendExpiration calls: redeemedAt is set exactly when
\* isRedeemed is true; isRedeemed never goes back from true to false; a
\* markAsRedeemed call succeeds only on a record that is not redeemed and
\* leaves it redeemed, so at most one such call succeeds; and expiresAt never
\* decreases.
C26_RedemptionLifecycle ==
  /\ [](entity # <<>> => (entity[1].this.isRedeemed <=> entity[1].this.redeemedAt # NoDate))
  /\ [][(entity # <<>> /\ entity' # <<>>) =>
          /\ entity[1].this.isRedeemed => entity'[1].this.isRedeemed
          /\ entity'[1].this.expiresAt >= entity[1].this.expiresAt
          /\ ( /\ entity'[1].count = entity[1].count + 1
               /\ entity'[1].last[1].method = "markAsRedeemed"
               /\ entity'[1].last[1].error = <<>> )
             => (~entity[1].this.isRedeemed /\ entity'[1].this.isRedeemed)]_vars

\* C26 witness: a redeemed record whose expiration has just been extended
C26_Witness ==
  /\ entity # <<>>
  /\ entity[1].this.isRedeemed
  /\ entity[1].last # <<>>
  /\ entity[1].last[1].method = "extendExpiration"
  /\ entity[1].last[1].error = <<>>
  /\ entity[1].this.expiresAt > entity[1].last[1].before.expiresAt

\* C27: for every successful spin the discountPercentage of the award is
\* the one the table gives for the drawn section; isWinning is true exactly
\* when the section is not TRY_AGAIN, which is exactly when
\* discountPercentage > 0; and the response carries discountCode and
\* expiresAt exactly when isWinning is true.
C27_AwardMatchesSection ==
  pc["r1"] = "done" =>
    LET res == outcome["r1"][1].value[1].result
    IN /\ res.section = Ctx.selectedSection
       /\ \E i \in DOMAIN WHEEL_SECTIONS_CONFIG :
            /\ WHEEL_SECTIONS_CONFIG[i].section = res.section
            /\ WHEEL_SECTIONS_CONFIG[i].discountPercentage = res.discountPercentage
       /\ res.isWinning <=> res.section # "TRY_AGAIN"
       /\ res.isWinning <=> res.discountPercentage > 0
       /\ res.discountCode.def <=> res.isWinning
       /\ res.expiresAt # NoDate <=> res.isWinning

\* C27 witness: a spin that landed on TRY_AGAIN has returned without a code
\* and without an expiration
C27_Witness ==
  /\ pc["r1"] = "done"
  /\ outcome["r1"][1].value[1].result.section = "TRY_AGAIN"
  /\ ~outcome["r1"][1].value[1].result.isWinning
  /\ ~outcome["r1"][1].value[1].result.discountCode.def

\* C28: whenever checkCanSpin returned false, what validateCanSpin throws
\* is one of the three rate-limit errors (the cooldown, the daily cap or the
\* session cap) and never the generic business-rule error, also when the
\* clock moves between the reads of checkCanSpin, calculateCooldownRemaining
\* and validateCanSpin.
C28_IneligibleAlwaysRateLimited ==
  (HasContext /\ ~Ctx.canSpin /\ pc["r1"] \notin {"context", "loaded"}) =>
    LET thrown == outcome["r1"][1].error[1]
    IN /\ pc["r1"] = "failed"
       /\ thrown.type # "BUSINESS_RULE_VIOLATION"
       /\ thrown.type = "RATE_LIMIT_EXCEEDED"
       /\ thrown.window.unit \in {"minutos", "dia", "sesion"}

\* C29: resetSpinLimits reports success only when the caller passes an admin
\* key and that key equals the configured ADMIN_RESET_KEY; without a key, or
\* with a wrong one, it reports success = false, whatever is configured,
\* also when no key is configured.
C29_ResetNeedsAdminKey ==
  (probe # <<>> /\ probe[1].fn = "resetSpinLimits") =>
    ( probe[1].result.success
        <=> ( /\ probe[1].input.adminKey.def
              /\ probe[1].input.envKey.def
              /\ probe[1].input.adminKey.s = probe[1].input.envKey.s ) )

\* C30: fromJSON(r.toJSON()) equals r in id, sessionId, section,
\* discountPercentage, spinAngle, spinDuration, timestamp, isRedeemed,
\* redeemedAt and expiresAt, so the day the spin is counted on and its
\* discount code are the same after a store/load cycle.
C30_JsonRoundTrip ==
  (probe # <<>> /\ probe[1].fn = "fromJSON") =>
    LET r == probe[1].input.record
        loaded == probe[1].result
    IN /\ \A f \in {"id", "sessionId", "section", "discountPercentage", "spinAngle",
                    "spinDuration", "timestamp", "isRedeemed", "redeemedAt", "expiresAt"} :
            loaded[f] = r[f]
       /\ IsoDate(loaded.timestamp) = IsoDate(r.timestamp)
       /\ getDiscountCode(loaded) = getDiscountCode(r)

====
